---- MODULE Spec2Model ----
(***************************************************************************)
(* Aion scheduling core: the slot model (aion/asp_model.py), the answer-   *)
(* set encoding of a scheduling request and its solver front end           *)
(* (aion/solver.py), and the chain coordinator (aion/cli.py).              *)
(*                                                                         *)
(* Dates are day ordinals; ordinal 0 is a Monday (2026-02-16), so that     *)
(* ordinal 2 is Wednesday 2026-02-18.  ISO date strings compare like the   *)
(* ordinals.  A time "HH:MM" is the record [h, m].                         *)
(***************************************************************************)
EXTENDS Integers, Sequences, FiniteSets, TLC

VARIABLES
    today,          \* get_now() date in the configured timezone
    sys_today,      \* datetime.now() date of the host (solver.py:83)
    events,         \* events of the calendar, as list_events returns them
    blocked_slots,  \* cfg["preferences"]["blocked_slots"]
    default_time_pref, \* cfg["preferences"]["default_time_pref"]
    op,             \* the last operation performed
    request,        \* argument of the last find_available_slots call
    solutions,      \* its return value
    fs_args,        \* arguments of the last find_free_slots call
    free_slots,     \* its return value
    cmds,           \* the chain of parsed commands
    ci,             \* loop index of _presolve_timeless (0-based)
    pending_events, \* _presolve_timeless: already solved commands
    solved,         \* _presolve_timeless: solved indices
    failed,         \* _presolve_timeless: failed indices
    auto,           \* handle_multichain: indices whose time a pre-solve pass
                    \* assigned and the user has not edited since
    check_args,     \* arguments of the last static check
    conflicts,      \* return value of _check_conflict
    pref_blocks,    \* return value of _check_preference_block
    last_title,     \* SessionContext.last_title
    last_date,      \* SessionContext.last_date
    history,        \* SessionContext.history
    next_id,        \* the id the Event Store gives the next created event
    store_calls,    \* Event Store calls made by the running handler
    handler,        \* the handler invocation: its command and mode
    outcome,        \* how the handler ended
    pc,             \* where an interactive handler waits
    all_slots,      \* handle_schedule: candidate slots of the solver
    slot_idx,       \* handle_schedule: index of the slot suggested next
    created,        \* events the handler created
    deleted,        \* events the handler deleted
    choice,         \* answer to the conflict prompt of handle_schedule
    answer,         \* the user's last answer to a prompt of the handler
    inputs,         \* number of inputs handled in the session
    xi,             \* handle_multichain: index of the command executed next
    dispatched,     \* handle_multichain: indices dispatched to a handler
    skipped,        \* handle_multichain: indices skipped for want of a time
    choice2,        \* handle_multichain: answer to "[S]kip and continue [X] Cancel"
    text,           \* the user input, as tokens
    nl,             \* the NL parser: its status, its setting and its reply
    parsed,         \* what the parser made of it
    raw_cfg,        \* handle_preferences: the blocked_slots of the saved config
    new_slot,       \* handle_preferences: the answers given so far
    gcal,           \* GoogleCalendar: _access_token and _refresh_token
    http,           \* the requests of the running Event Store call, with their replies
    cfg,            \* the saved config: its keys other than the preferences
    loop            \* async_main: its locals, _ollama_status and what the input did

check_vars == <<check_args, conflicts, pref_blocks>>

session_vars == <<last_title, last_date, history>>

handler_vars == <<next_id, store_calls, handler, outcome, pc, all_slots, slot_idx,
                  created, deleted, choice, answer, inputs>>

exec_vars == <<xi, dispatched, skipped, choice2>>

io_vars == <<text, nl, parsed, raw_cfg, new_slot, gcal, http, cfg, loop>>

vars == <<today, sys_today, events, blocked_slots, default_time_pref, op, request, solutions,
          fs_args, free_slots, cmds, ci, pending_events, solved, failed, auto,
          check_vars, session_vars, handler_vars, exec_vars, io_vars>>

-----------------------------------------------------------------------------
(* Bounds of the model *)
MaxEvents == 2
MaxImproving == 1
MaxChain == 2

-----------------------------------------------------------------------------
(* Values *)
NoDate == -1
NoSlot == NoDate
NoTime == [h |-> NoDate, m |-> NoDate]
None == "none"

WeekdayNames ==
    <<"monday", "tuesday", "wednesday", "thursday", "friday", "saturday", "sunday">>

ALL_DAYS == {WeekdayNames[i] : i \in 1..7}

T(hh, mm) == [h |-> hh, m |-> mm]

Minutes(t) == t.h * 60 + t.m

Range(a, b) == a..(b - 1)

Min2(a, b) == IF a < b THEN a ELSE b

-----------------------------------------------------------------------------
(* ASPModel: the slot model *)
slots_per_hour == 2
day_start_hour == 6
day_end_hour == 22
total_slots == (day_end_hour - day_start_hour) * slots_per_hour

time_to_slot(t) ==
    (t.h - day_start_hour) * slots_per_hour + (IF t.m >= 30 THEN 1 ELSE 0)

(* the half hour of an odd slot is lost *)
slot_to_time_Mutant(slot) ==
    [h |-> day_start_hour + (slot \div slots_per_hour), m |-> 0]

slot_to_time(slot) ==
    [h |-> day_start_hour + (slot \div slots_per_hour),
     m |-> IF slot % slots_per_hour # 0 THEN 30 ELSE 0]

duration_to_slots(minutes) == (minutes + 29) \div 30

date_to_weekday(date) == WeekdayNames[(date % 7) + 1]

get_week_dates(now) == [i \in 1..7 |-> (now - (now % 7)) + (i - 1)]

SeqRange(s) == {s[i] : i \in 1..Len(s)}

-----------------------------------------------------------------------------
(* ASPModel.generate_base_program *)
time_slot == 0..(total_slots - 1)
weekend == {"saturday", "sunday"}
working_hour == 6..24
morning == 0..12
afternoon == 12..24
evening == 24..(total_slots - 1)

(* busy facts for the first slot of an event only *)
generate_busy_constraints_Mutant(evs, dates) ==
    { <<date_to_weekday(evs[i].date), time_to_slot(evs[i].time)>> :
        i \in {j \in 1..Len(evs) : evs[j].date \in SeqRange(dates)} }

(* ASPModel.generate_busy_constraints: the busy(weekday, slot, _) facts *)
generate_busy_constraints(evs, dates) ==
    UNION { { <<date_to_weekday(evs[i].date), slot>> :
                slot \in Range(time_to_slot(evs[i].time),
                               Min2(time_to_slot(evs[i].time)
                                      + duration_to_slots(evs[i].duration),
                                    total_slots)) } :
            i \in {j \in 1..Len(evs) : evs[j].date \in SeqRange(dates)} }

(* config.get_preferences: blocked slots with the expired ones filtered *)
get_preferences(all_blocked, now) ==
    SelectSeq(all_blocked, LAMBDA b : ~(b.until # NoDate /\ b.until < now))

(* ASPModel.generate_preference_constraints: busy(day, slot, "preference") *)
generate_preference_constraints(blocked, target_date, now) ==
    UNION { LET b == blocked[i]
                slots == Range(time_to_slot(b.start),
                               Min2(time_to_slot(b.end), total_slots))
            IN  IF b.until # NoDate /\ b.until < now
                  THEN {}
                  ELSE IF target_date # NoDate
                    THEN IF date_to_weekday(target_date) \notin b.days
                           THEN {}
                           ELSE {<<date_to_weekday(target_date), s>> : s \in slots}
                    ELSE {<<d, s>> : d \in b.days, s \in slots} :
            i \in 1..Len(blocked) }

-----------------------------------------------------------------------------
(* ASPModel.generate_scheduling_request: the answer sets of the program.   *)
(* An answer set is a set of schedule(activity, D, T) atoms, here <<D, T>>. *)

allowed_day(req) ==
    IF req.date # NoDate THEN {date_to_weekday(req.date)} ELSE req.days

(* :- schedule(A, D, T), busy(D, T, _).                                     *)
(* :- schedule(A, D, T), duration(A, Dur), Offset = 1..Dur-1,               *)
(*    busy(D, T+Offset, _).            (emitted only when Dur > 1)          *)
NoBusyOverlap(busy, req, a) ==
    /\ <<a[1], a[2]>> \notin busy
    /\ duration_to_slots(req.duration) > 1 =>
         \A Offset \in 1..(duration_to_slots(req.duration) - 1) :
             <<a[1], a[2] + Offset>> \notin busy

(* a day-end constraint that is off by one slot *)
DayEnd_Mutant(req, a) ==
    ~(a[2] + duration_to_slots(req.duration) > total_slots + 1)

(* :- schedule(A, D, T), duration(A, Dur), T + Dur > total_slots. *)
DayEnd(req, a) ==
    ~(a[2] + duration_to_slots(req.duration) > total_slots)

(* :- schedule(A, D, _), weekend(D).        (only with avoid_weekends) *)
AvoidWeekends(req, a) ==
    req.avoid_weekends => a[1] \notin weekend

(* :- schedule(A, D, T), not working_hour(T).  (only with working_hours_only) *)
WorkingHoursOnly(req, a) ==
    req.working_hours_only => a[2] \in working_hour

(* the spreading constraint left out *)
SpreadDays_Mutant(req, m) == TRUE

(* :- schedule(A, D, T1), schedule(A, D, T2), T1 != T2.   (only count > 1) *)
SpreadDays(req, m) ==
    req.count > 1 =>
        \A a1 \in m, a2 \in m : (a1[1] = a2[1]) => (a1[2] = a2[2])

RECURSIVE KSubsets(_, _)
KSubsets(S, k) ==
    IF k = 0 THEN {{}}
    ELSE IF S = {} THEN {}
    ELSE LET x == CHOOSE y \in S : TRUE
         IN  KSubsets(S \ {x}, k) \cup {m \cup {x} : m \in KSubsets(S \ {x}, k - 1)}

(* count { schedule(A, D, T) : allowed_day(A, D), time_slot(T) } count. *)
ChoiceRule(req, atoms) == KSubsets(atoms, req.count)

AnswerSets(busy, req) ==
    LET atoms == {a \in allowed_day(req) \X time_slot :
                     /\ NoBusyOverlap(busy, req, a)
                     /\ DayEnd(req, a)
                     /\ AvoidWeekends(req, a)
                     /\ WorkingHoursOnly(req, a)}
    IN  {m \in ChoiceRule(req, atoms) : SpreadDays(req, m)}

RECURSIVE SumT(_)
SumT(m) ==
    IF m = {} THEN 0
    ELSE LET x == CHOOSE y \in m : TRUE IN x[2] + SumT(m \ {x})

(* The #minimize statements as <<level 2, level 1>>; the higher level has  *)
(* the higher priority.                                                    *)
Cost(req, m) ==
    IF req.prefer_morning
      THEN <<SumT(m), SumT({a \in m : a[2] \notin morning})>>
    ELSE IF req.prefer_afternoon
      THEN <<0, Cardinality({a \in m : a[2] \notin afternoon})>>
    ELSE IF req.prefer_evening
      THEN <<0, Cardinality({a \in m : a[2] \notin evening})>>
    ELSE <<0, SumT(m)>>

CostLess(c1, c2) == c1[1] < c2[1] \/ (c1[1] = c2[1] /\ c1[2] < c2[2])

Optimal(req, models) ==
    {m \in models : \A n \in models : ~CostLess(Cost(req, n), Cost(req, m))}

-----------------------------------------------------------------------------
(* clingo.Control(["--models=K", "--opt-mode=optN"]).solve(on_model=...):  *)
(* on_model is called for every model the solver reports.  While it        *)
(* optimises, the solver reports models of strictly decreasing cost, the   *)
(* last of them an optimal one; it then enumerates up to K optimal models. *)
(* Which models it meets, and in which order, is the solver's search       *)
(* order: every possibility is a behaviour of the model.  MaxImproving     *)
(* bounds the number of non-optimal models reported.                       *)

RECURSIVE ImprovingPrefixes(_, _, _)
ImprovingPrefixes(req, nonopt, n) ==
    IF n = 0 THEN {<<>>}
    ELSE LET shorter == ImprovingPrefixes(req, nonopt, n - 1)
         IN  shorter \cup
             {Append(p, x) : <<p, x>> \in
                 {px \in shorter \X nonopt :
                     /\ Len(px[1]) = n - 1
                     /\ (px[1] # <<>> =>
                           CostLess(Cost(req, px[2]),
                                    Cost(req, px[1][Len(px[1])])))}}

RECURSIVE Perms(_)
Perms(S) ==
    IF S = {} THEN {<<>>}
    ELSE UNION {{<<x>> \o p : p \in Perms(S \ {x})} : x \in S}

ClingoSolve(req, models) ==
    IF models = {} THEN {<<>>}
    ELSE LET opt == Optimal(req, models)
             k == Min2(req.max_solutions, Cardinality(opt))
         IN  {pre \o <<last>> \o enum :
                 pre \in ImprovingPrefixes(req, models \ opt, MaxImproving),
                 last \in opt,
                 enum \in UNION {Perms(E) : E \in KSubsets(opt, k)}}

-----------------------------------------------------------------------------
(* ScheduleSolver.find_available_slots *)

(* the date of a schedule atom: solver.py lines 46-53 *)
actual_date(req, dates, day) ==
    IF req.date # NoDate THEN req.date
    ELSE IF \E i \in 1..Len(dates) : date_to_weekday(dates[i]) = day
      THEN dates[CHOOSE i \in 1..Len(dates) :
                    /\ date_to_weekday(dates[i]) = day
                    /\ \A j \in 1..(i - 1) : date_to_weekday(dates[j]) # day]
      ELSE NoDate

SlotKeyLess(x, y) ==
    x.date < y.date \/ (x.date = y.date /\ x.slot < y.slot)

(* solution.sort(key=lambda x: (x.get("date", ""), x["slot"])) *)
RECURSIVE SortSolution(_)
SortSolution(S) ==
    IF S = {} THEN <<>>
    ELSE LET x == CHOOSE y \in S : \A z \in S : ~SlotKeyLess(z, y)
         IN  <<x>> \o SortSolution(S \ {x})

on_model(req, dates, model) ==
    SortSolution({[day |-> a[1],
                   date |-> actual_date(req, dates, a[1]),
                   time |-> slot_to_time(a[2]),
                   slot |-> a[2],
                   duration |-> req.duration] : a \in model})

BusyFacts(evs, all_blocked, req, now) ==
    LET dates == IF req.date # NoDate THEN <<req.date>> ELSE get_week_dates(now)
        blocked == get_preferences(all_blocked, now)
    IN  generate_busy_constraints(evs, dates)
        \cup (IF blocked # <<>>
                THEN generate_preference_constraints(blocked, req.date, now)
                ELSE {})

(* the set of lists find_available_slots may return *)
find_available_slots(evs, all_blocked, req, now) ==
    LET dates == IF req.date # NoDate THEN <<req.date>> ELSE get_week_dates(now)
        models == AnswerSets(BusyFacts(evs, all_blocked, req, now), req)
    IN  {[i \in 1..Len(run) |-> on_model(req, dates, run[i])] :
            run \in ClingoSolve(req, models)}

(* An activity name with a double quote in it.  The program text puts the  *)
(* name between double quotes (asp_model.py lines 85-93), so the quote     *)
(* ends the string early and the text is not a program: ctl.add, which     *)
(* parses it (solver.py line 30, outside the try), raises.                 *)
QuotedActivity == "say \"hi\""

ProgramParses(req) == req.activity # QuotedActivity

(* The weekday names that are constants of the program; any other name in  *)
(* an allowed_day or busy fact is a variable there, the fact is unsafe and *)
(* ctl.ground raises (solver.py lines 32-35).                              *)
ProgramGrounds(blocked, req) ==
    IF req.date # NoDate THEN TRUE
    ELSE /\ req.days \subseteq ALL_DAYS
         /\ \A i \in 1..Len(blocked) : blocked[i].days \subseteq ALL_DAYS

(* A call of find_available_slots: it raises, returns the error sentinel   *)
(* [{"error": ...}], or returns a list of solutions.                       *)
find_available_slots_call(evs, all_blocked, req, now) ==
    IF ~ProgramParses(req)
      THEN {[kind |-> "raised", result |-> <<>>]}
    ELSE IF ~ProgramGrounds(get_preferences(all_blocked, now), req)
      THEN {[kind |-> "error", result |-> <<>>]}
    ELSE {[kind |-> "ok", result |-> r] :
             r \in find_available_slots(evs, all_blocked, req, now)}

-----------------------------------------------------------------------------
(* ScheduleSolver.find_free_slots *)

(* busy slots that count the events of every date *)
busy_slots_Mutant(evs, all_blocked, date, now, sysnow) ==
    UNION { Range(time_to_slot(evs[i].time),
                  Min2(time_to_slot(evs[i].time) + duration_to_slots(evs[i].duration),
                       total_slots)) :
            i \in 1..Len(evs) }
    \cup
    LET prefs == get_preferences(all_blocked, now)
    IN  UNION { Range(time_to_slot(prefs[i].start),
                      Min2(time_to_slot(prefs[i].end), total_slots)) :
                i \in {j \in 1..Len(prefs) :
                         /\ ~(prefs[j].until # NoDate /\ prefs[j].until < sysnow)
                         /\ date_to_weekday(date) \in prefs[j].days} }

(* solver.py lines 71-93: the busy_slots set *)
busy_slots(evs, all_blocked, date, now, sysnow) ==
    UNION { Range(time_to_slot(evs[i].time),
                  Min2(time_to_slot(evs[i].time) + duration_to_slots(evs[i].duration),
                       total_slots)) :
            i \in {j \in 1..Len(evs) : evs[j].date = date} }
    \cup
    LET prefs == get_preferences(all_blocked, now)
    IN  UNION { Range(time_to_slot(prefs[i].start),
                      Min2(time_to_slot(prefs[i].end), total_slots)) :
                i \in {j \in 1..Len(prefs) :
                         /\ ~(prefs[j].until # NoDate /\ prefs[j].until < sysnow)
                         /\ date_to_weekday(date) \in prefs[j].days} }

(* an interval whose end is the slot after the one that ended the run *)
FreeInterval_Mutant(date, first, past) ==
    [start |-> slot_to_time(first),
     end |-> slot_to_time(past + 1),
     duration_mins |-> (past - first) * 30,
     date |-> date]

FreeInterval(date, first, past) ==
    [start |-> slot_to_time(first),
     end |-> slot_to_time(past),
     duration_mins |-> (past - first) * 30,
     date |-> date]

(* solver.py lines 98-112: the scan over the slots, from slot on *)
RECURSIVE ScanSlots(_, _, _, _, _, _)
ScanSlots(busy, date, min_duration, slot, current_start, acc) ==
    IF slot = total_slots
      THEN \* lines 114-122: the run that reaches the end of the day
           IF current_start # NoSlot
                /\ (total_slots - current_start) * 30 >= min_duration
             THEN Append(acc, FreeInterval(date, current_start, total_slots))
             ELSE acc
    ELSE IF slot \notin busy
      THEN ScanSlots(busy, date, min_duration, slot + 1,
                     IF current_start = NoSlot THEN slot ELSE current_start, acc)
    ELSE IF current_start # NoSlot
      THEN ScanSlots(busy, date, min_duration, slot + 1, NoSlot,
                     IF (slot - current_start) * 30 >= min_duration
                       THEN Append(acc, FreeInterval(date, current_start, slot))
                       ELSE acc)
    ELSE ScanSlots(busy, date, min_duration, slot + 1, NoSlot, acc)

find_free_slots(evs, all_blocked, date, min_duration, now, sysnow) ==
    ScanSlots(busy_slots(evs, all_blocked, date, now, sysnow),
              date, min_duration, 0, NoSlot, <<>>)

-----------------------------------------------------------------------------
(* Chain coordinator: aion/cli.py *)

default_duration == 60

(* a check that also reports the intervals that only touch the proposed one *)
_check_conflict_Mutant(evs, date, time, duration) ==
    LET new_start == time_to_slot(time)
        new_end == new_start + duration_to_slots(duration)
    IN  SelectSeq(evs, LAMBDA ev :
            /\ ev.date = date
            /\ new_start <= time_to_slot(ev.time) + duration_to_slots(ev.duration)
            /\ new_end >= time_to_slot(ev.time))

(* cli.py lines 137-158 *)
_check_conflict(evs, date, time, duration) ==
    LET new_start == time_to_slot(time)
        new_end == new_start + duration_to_slots(duration)
    IN  SelectSeq(evs, LAMBDA ev :
            /\ ev.date = date
            /\ new_start < time_to_slot(ev.time) + duration_to_slots(ev.duration)
            /\ new_end > time_to_slot(ev.time))

(* no blocked window is ever reported *)
_check_preference_block_Mutant(all_blocked, date, time, duration, now) ==
    SelectSeq(get_preferences(all_blocked, now), LAMBDA block : FALSE)

(* cli.py lines 109-134 *)
_check_preference_block(all_blocked, date, time, duration, now) ==
    LET new_start == time_to_slot(time)
        new_end == new_start + duration_to_slots(duration)
    IN  SelectSeq(get_preferences(all_blocked, now), LAMBDA block :
            /\ ~(block.until # NoDate /\ block.until < now)
            /\ date_to_weekday(date) \in block.days
            /\ new_start < time_to_slot(block.end)
            /\ new_end > time_to_slot(block.start))

(* cmd.duration or default_duration; an absent duration is 0 *)
DurationOr(cmd) == IF cmd.duration # 0 THEN cmd.duration ELSE default_duration

(* cli.py lines 676-715 *)
_find_chain_conflicts(chain) ==
    LET schedulable == {i \in 1..Len(chain) :
                           /\ chain[i].intent = "SCHEDULE"
                           /\ chain[i].dates # <<>>
                           /\ chain[i].time # NoTime}
        Overlap(i, j) ==
            /\ chain[i].dates[1] = chain[j].dates[1]
            /\ time_to_slot(chain[i].time)
                 < time_to_slot(chain[j].time) + duration_to_slots(DurationOr(chain[j]))
            /\ time_to_slot(chain[j].time)
                 < time_to_slot(chain[i].time) + duration_to_slots(DurationOr(chain[i]))
    IN  {i - 1 : i \in {k \in schedulable :
                          \E j \in schedulable : j # k /\ Overlap(k, j)}}

(* gcal.list_events(date): the events of that date *)
list_events(date) == SelectSeq(events, LAMBDA e : e.date = date)

(* cli.py lines 743-756: the request of a pre-solve call *)
PresolveRequest(cmd, date) ==
    LET time_pref == IF cmd.time_pref # None THEN cmd.time_pref ELSE default_time_pref
    IN  [activity |-> cmd.activity,
         date |-> date,
         duration |-> DurationOr(cmd),
         count |-> 1,
         days |-> ALL_DAYS,
         avoid_weekends |-> FALSE,
         working_hours_only |-> FALSE,
         prefer_morning |-> time_pref = "morning",
         prefer_afternoon |-> time_pref = "afternoon",
         prefer_evening |-> time_pref = "evening",
         max_solutions |-> 5]

(* a pre-solve call that does not see the commands solved before it *)
PresolveEvents_Mutant(pending, date) == list_events(date)

(* cli.py lines 758-760: the events a pre-solve call hands to the solver *)
PresolveEvents(pending, date) ==
    list_events(date) \o SelectSeq(pending, LAMBDA e : e.date = date)

(* One iteration of the loop of _presolve_timeless, cli.py lines 735-776 *)
PresolveStep ==
    /\ op = "presolve"
    /\ ci < Len(cmds)
    /\ LET i == ci + 1
           cmd == cmds[i]
       IN  IF cmd.intent # "SCHEDULE" \/ cmd.time # NoTime
             THEN UNCHANGED <<cmds, pending_events, solved, failed, auto>>
             ELSE LET date == IF cmd.dates # <<>> THEN cmd.dates[1] ELSE today
                      req == PresolveRequest(cmd, date)
                  IN  \E sols \in find_available_slots(
                                     PresolveEvents(pending_events, date),
                                     blocked_slots, req, today) :
                         IF sols # <<>>
                           THEN /\ cmds' = [cmds EXCEPT ![i] =
                                             [cmd EXCEPT !.dates = <<date>>,
                                                         !.time = sols[1][1].time]]
                                /\ solved' = Append(solved, ci)
                                /\ pending_events' =
                                     Append(pending_events,
                                            [date |-> date,
                                             time |-> sols[1][1].time,
                                             duration |-> DurationOr(cmd)])
                                /\ auto' = auto \cup {ci}
                                /\ UNCHANGED failed
                           ELSE /\ cmds' = [cmds EXCEPT ![i].dates = <<date>>]
                                /\ failed' = Append(failed, ci)
                                /\ UNCHANGED <<pending_events, solved, auto>>
    /\ ci' = ci + 1
    /\ UNCHANGED <<today, sys_today, events, blocked_slots, default_time_pref, op,
                   request, solutions, fs_args, free_slots,
                   check_vars, session_vars, handler_vars, exec_vars, io_vars>>

(* cli.py line 778: return solved, failed *)
PresolveReturn ==
    /\ op = "presolve"
    /\ ci = Len(cmds)
    /\ op' = "presolved"
    /\ UNCHANGED <<today, sys_today, events, blocked_slots, default_time_pref,
                   request, solutions, fs_args, free_slots,
                   cmds, ci, pending_events, solved, failed, auto,
                   check_vars, session_vars, handler_vars, exec_vars, io_vars>>

-----------------------------------------------------------------------------
(* Inputs *)

Ev(d, t, dur) == [date |-> d, time |-> t, duration |-> dur]

EventOptions ==
    { Ev(2, T(9, 0), 60),      \* the meeting of tests/test_solver.py
      Ev(2, T(9, 15), 30),     \* start off the half-hour grid
      Ev(2, T(5, 45), 30),     \* starts before the first slot
      Ev(2, T(6, 0), 540),     \* 06:00-15:00
      Ev(2, T(21, 30), 60),    \* runs past the last slot
      Ev(5, T(10, 0), 60) }    \* another date

EventKeyLess(a, b) ==
    \/ a.date < b.date
    \/ a.date = b.date /\ Minutes(a.time) < Minutes(b.time)
    \/ a.date = b.date /\ Minutes(a.time) = Minutes(b.time) /\ a.duration < b.duration

(* list_events asks for orderBy=startTime: lists sorted by start *)
EventLists(options, n) ==
    {evs \in UNION {[1..k -> options] : k \in 0..n} :
        \A i \in 1..(Len(evs) - 1) : EventKeyLess(evs[i], evs[i + 1])}

Block(days, start, end, until) ==
    [days |-> days, start |-> start, end |-> end, until |-> until]

BlockedConfigs ==
    { <<>>,
      <<Block({"wednesday"}, T(8, 0), T(9, 45), NoDate)>>,
      <<Block({"wednesday", "saturday"}, T(12, 0), T(18, 0), 1)>>,
      <<Block(ALL_DAYS, T(20, 0), T(22, 0), 2)>>,
      \* start "10:00", end "9:00": saved by the preferences menu, whose
      \* check compares the two answers as strings (cli.py line 602)
      <<Block({"wednesday"}, T(10, 0), T(9, 0), NoDate)>> }

Req(date, dur, count, days, aw, wh, pref, k) ==
    [activity |-> "gym",
     date |-> date, duration |-> dur, count |-> count, days |-> days,
     avoid_weekends |-> aw, working_hours_only |-> wh,
     prefer_morning |-> pref = "morning",
     prefer_afternoon |-> pref = "afternoon",
     prefer_evening |-> pref = "evening",
     max_solutions |-> k]

Requests ==
    {Req(d, dur, 1, ALL_DAYS, FALSE, wh, pref, 5) :
        d \in {2, 5}, dur \in {30, 60}, wh \in BOOLEAN, pref \in {None, "morning"}}
    \cup {Req(2, 540, 1, ALL_DAYS, FALSE, FALSE, "afternoon", 2),
          Req(2, 210, 1, ALL_DAYS, FALSE, FALSE, "evening", 1),
          Req(2, 60, 2, ALL_DAYS, FALSE, FALSE, None, 5),
          Req(NoDate, 930, 1, ALL_DAYS, FALSE, FALSE, None, 1)}
    \cup {Req(NoDate, 930, 2, {"tuesday", "wednesday", "saturday"}, aw, FALSE, pref, 1) :
            aw \in BOOLEAN, pref \in {None, "morning"}}
    \cup {[Req(2, 900, 1, ALL_DAYS, FALSE, FALSE, None, 5)
              EXCEPT !.activity = QuotedActivity],
          Req(NoDate, 900, 1, {"Monday", "tuesday"}, FALSE, FALSE, None, 5)}

MinDurations == {30, 60, 90}

NoRequest == Req(NoDate, 0, 0, {}, FALSE, FALSE, None, 0)
NoArgs == [date |-> NoDate, min_duration |-> 0]
NoCheck == [date |-> NoDate, time |-> NoTime, duration |-> 0]
NoHandler == [name |-> None]

-----------------------------------------------------------------------------
(* Specification of the two solver queries *)

InitCommon ==
    /\ today = 2
    /\ blocked_slots \in BlockedConfigs
    /\ request = NoRequest
    /\ solutions = <<>>
    /\ fs_args = NoArgs
    /\ free_slots = <<>>
    /\ ci = 0
    /\ pending_events = <<>>
    /\ solved = <<>>
    /\ failed = <<>>
    /\ auto = {}
    /\ check_args = NoCheck
    /\ conflicts = <<>>
    /\ pref_blocks = <<>>
    /\ last_title = None
    /\ last_date = NoDate
    /\ history = <<>>
    /\ next_id = MaxEvents + 1
    /\ store_calls = <<>>
    /\ handler = NoHandler
    /\ outcome = None
    /\ pc = "idle"
    /\ all_slots = <<>>
    /\ slot_idx = 0
    /\ created = <<>>
    /\ deleted = <<>>
    /\ choice = None
    /\ answer = None
    /\ inputs = 0
    /\ xi = 0
    /\ dispatched = <<>>
    /\ skipped = <<>>
    /\ choice2 = None

(* no text has been parsed *)
NoPrefs ==
    /\ raw_cfg = <<>>
    /\ new_slot = None

(* no Event Store call has been made *)
NoStore ==
    /\ gcal = [access_token |-> 0, refresh_token |-> ""]
    /\ http = <<>>

(* the interactive loop is not running *)
NoLoop ==
    /\ cfg = [ollama_setup_declined |-> FALSE, ollama_enabled |-> FALSE]
    /\ loop = None

NoIO ==
    /\ text = <<>>
    /\ nl = None
    /\ parsed = None
    /\ NoPrefs
    /\ NoStore
    /\ NoLoop

Init ==
    /\ InitCommon
    /\ NoIO
    /\ sys_today = today
    /\ default_time_pref = None
    /\ events \in EventLists(EventOptions, MaxEvents)
    /\ op = "init"
    /\ cmds = <<>>

FindAvailableSlots ==
    /\ op = "init"
    /\ \E req \in Requests :
         \E call \in find_available_slots_call(events, blocked_slots, req, today) :
            /\ request' = req
            /\ solutions' = call.result
            /\ outcome' = call.kind
    /\ op' = "find_available_slots"
    /\ UNCHANGED <<today, sys_today, events, blocked_slots, default_time_pref,
                   fs_args, free_slots, cmds, ci, pending_events, solved, failed, auto,
                   check_vars, session_vars, exec_vars, io_vars,
                   next_id, store_calls, handler, pc, all_slots, slot_idx,
                   created, deleted, choice, answer, inputs>>

Next == FindAvailableSlots

Spec == Init /\ [][Next]_vars

FreeEventOptions == EventOptions \cup {Ev(2, T(10, 30), 30)}

InitFree ==
    /\ InitCommon
    /\ NoIO
    /\ sys_today \in {today, today + 1}
    /\ default_time_pref = None
    /\ events \in EventLists(FreeEventOptions, MaxEvents)
    /\ op = "init"
    /\ cmds = <<>>

FindFreeSlots ==
    /\ op = "init"
    /\ \E date \in {2, 5}, min_duration \in MinDurations :
         /\ fs_args' = [date |-> date, min_duration |-> min_duration]
         /\ free_slots' = find_free_slots(events, blocked_slots, date, min_duration,
                                          today, sys_today)
    /\ op' = "find_free_slots"
    /\ UNCHANGED <<today, sys_today, events, blocked_slots, default_time_pref,
                   request, solutions, cmds, ci, pending_events, solved, failed, auto,
                   check_vars, session_vars, handler_vars, exec_vars, io_vars>>

CheckTimes == {T(8, 30), T(9, 0), T(9, 45), T(10, 0), T(10, 30), T(19, 45), T(21, 30)}

CheckDurations == {30, 45, 60}

CheckConflict ==
    /\ op = "init"
    /\ \E date \in {2, 5}, time \in CheckTimes, duration \in CheckDurations :
         /\ check_args' = [date |-> date, time |-> time, duration |-> duration]
         /\ conflicts' = _check_conflict(events, date, time, duration)
    /\ op' = "check_conflict"
    /\ UNCHANGED <<today, sys_today, events, blocked_slots, default_time_pref,
                   request, solutions, fs_args, free_slots,
                   cmds, ci, pending_events, solved, failed, auto,
                   pref_blocks, session_vars, handler_vars, exec_vars, io_vars>>

CheckPreferenceBlock ==
    /\ op = "init"
    /\ \E date \in {2, 5}, time \in CheckTimes, duration \in CheckDurations :
         /\ check_args' = [date |-> date, time |-> time, duration |-> duration]
         /\ pref_blocks' = _check_preference_block(blocked_slots, date, time,
                                                   duration, today)
    /\ op' = "check_preference_block"
    /\ UNCHANGED <<today, sys_today, events, blocked_slots, default_time_pref,
                   request, solutions, fs_args, free_slots,
                   cmds, ci, pending_events, solved, failed, auto,
                   conflicts, session_vars, handler_vars, exec_vars, io_vars>>

NextFree == FindFreeSlots \/ CheckConflict \/ CheckPreferenceBlock

SpecFree == InitFree /\ [][NextFree]_vars

-----------------------------------------------------------------------------
(* Specification of the chain coordinator *)

ParsedCommand(intent, activity, dates, time, duration, time_pref) ==
    [intent |-> intent, activity |-> activity, dates |-> dates, time |-> time,
     duration |-> duration, time_pref |-> time_pref]

Cmd(intent, dates, time, duration, time_pref) ==
    ParsedCommand(intent, "gym", dates, time, duration, time_pref)

CommandOptions ==
    { Cmd("SCHEDULE", <<2>>, T(6, 0), 0, None),       \* "schedule X today at 6"
      Cmd("SCHEDULE", <<>>, NoTime, 0, None),         \* "schedule X"
      Cmd("SCHEDULE", <<2>>, NoTime, 480, "morning"), \* "... today morning for 8 hours"
      Cmd("SCHEDULE", <<2>>, NoTime, 900, None),
      Cmd("SCHEDULE", <<5>>, NoTime, 480, None),
      Cmd("LIST", <<2>>, NoTime, 0, None) }

ChainEventOptions == {Ev(2, T(9, 0), 60), Ev(2, T(6, 0), 540)}

InitChain ==
    /\ InitCommon
    /\ NoIO
    /\ sys_today = today
    /\ default_time_pref \in {None, "morning"}
    /\ events \in EventLists(ChainEventOptions, 1)
    /\ op = "presolve"
    /\ cmds \in UNION {[1..n -> CommandOptions] : n \in 1..MaxChain}

NextChain == PresolveStep \/ PresolveReturn

SpecChain == InitChain /\ [][NextChain]_vars

-----------------------------------------------------------------------------
(* Specification of the preview loop of handle_multichain, cli.py lines    *)
(* 781-873: preview, edit, confirm, pre-solve, preview of the suggested    *)
(* times, until the execution starts or the chain is cancelled             *)

MultiChains ==
    { <<Cmd("SCHEDULE", <<2>>, NoTime, 900, None),
        Cmd("SCHEDULE", <<2>>, NoTime, 930, None)>>,  \* fits an empty day only
      <<Cmd("SCHEDULE", <<2>>, NoTime, 900, None),
        Cmd("SCHEDULE", <<2>>, NoTime, 60, None)>>,
      <<Cmd("SCHEDULE", <<5>>, T(9, 0), 0, None),
        Cmd("LIST", <<2>>, NoTime, 0, None)>> }

(* what the user may enter at the Date, Time and Duration prompts *)
EditDates == {5}
EditTimes == {T(9, 0)}
EditDurations == {900}

InitMulti ==
    /\ InitCommon
    /\ NoIO
    /\ blocked_slots = <<>>
    /\ sys_today = today
    /\ default_time_pref = "morning"
    /\ events \in EventLists({Ev(2, T(6, 0), 60)}, 1)
    /\ op = "preview"
    /\ cmds \in MultiChains

MultiFrame ==
    UNCHANGED <<today, sys_today, events, blocked_slots, default_time_pref,
                request, solutions, fs_args, free_slots,
                check_vars, session_vars, handler_vars, exec_vars, io_vars>>

(* cli.py lines 792-794: choice "3" *)
PreviewCancel ==
    /\ op = "preview"
    /\ op' = "cancelled"
    /\ UNCHANGED <<cmds, ci, pending_events, solved, failed, auto>>
    /\ MultiFrame

(* cli.py lines 796-841: choice "2", a command and one of its fields *)
PreviewEdit ==
    /\ op = "preview"
    /\ \E i \in 1..Len(cmds) :
         \/ \E d \in EditDates : cmds' = [cmds EXCEPT ![i].dates = <<d>>]
         \/ \E t \in EditTimes : cmds' = [cmds EXCEPT ![i].time = t]
         \/ \E m \in EditDurations : cmds' = [cmds EXCEPT ![i].duration = m]
    /\ auto' = {i \in auto : cmds'[i + 1] = cmds[i + 1]}
    /\ UNCHANGED <<op, ci, pending_events, solved, failed>>
    /\ MultiFrame

needs_solving(chain) ==
    \E i \in 1..Len(chain) : chain[i].intent = "SCHEDULE" /\ chain[i].time = NoTime

(* cli.py lines 843-848: choice "1"; _presolve_timeless starts with empty   *)
(* pending_events, solved and failed (lines 730-733), or the execution     *)
(* starts                                                                  *)
PreviewConfirm ==
    /\ op = "preview"
    /\ IF needs_solving(cmds)
         THEN /\ op' = "presolve"
              /\ ci' = 0
              /\ pending_events' = <<>>
              /\ solved' = <<>>
              /\ failed' = <<>>
         ELSE /\ op' = "execute"
              /\ UNCHANGED <<ci, pending_events, solved, failed>>
    /\ UNCHANGED <<cmds, auto>>
    /\ MultiFrame

(* cli.py lines 850-874: after the pre-solve; the preview of the suggested  *)
(* times is shown when a command was solved                                *)
SuggestedPreview ==
    /\ op = "presolved"
    /\ IF solved # <<>>
         THEN \E inner \in {"1", "2", "3"} :
                op' = CASE inner = "1" -> "execute"
                        [] inner = "2" -> "preview"
                        [] inner = "3" -> "cancelled"
         ELSE op' = "execute"
    /\ UNCHANGED <<cmds, ci, pending_events, solved, failed, auto>>
    /\ MultiFrame

NextMulti ==
    \/ PreviewCancel
    \/ PreviewEdit
    \/ PreviewConfirm
    \/ PresolveStep
    \/ PresolveReturn
    \/ SuggestedPreview

SpecMulti == InitMulti /\ [][NextMulti]_vars

-----------------------------------------------------------------------------
(* Event Store: aion/google_cal.py.  The variable events is the store, in   *)
(* the order list_events returns it (orderBy=startTime).                    *)

EventData(id, title, date, time, duration) ==
    [id |-> id, title |-> title, date |-> date, time |-> time, duration |-> duration]

NoEvent == EventData(NoDate, None, NoDate, NoTime, 0)

StartLess(a, b) ==
    a.date < b.date \/ (a.date = b.date /\ Minutes(a.time) < Minutes(b.time))

(* list_events() with no date: from today to seven days ahead *)
list_events_upcoming ==
    SelectSeq(events, LAMBDA e : e.date >= today /\ e.date < today + 8)

(* the store after create_event(title, date, time, duration) *)
create_event(ev) ==
    SelectSeq(events, LAMBDA e : ~StartLess(ev, e))
      \o <<ev>> \o SelectSeq(events, LAMBDA e : StartLess(ev, e))

(* the store after delete_event(event_id) *)
delete_event(id) == SelectSeq(events, LAMBDA e : e.id # id)

(* the changes of an UPDATE command: absent fields are NoTime, NoDate, 0 *)
Changes(cmd) ==
    [time |-> cmd.time,
     date |-> IF cmd.dates # <<>> THEN cmd.dates[1] ELSE NoDate,
     duration |-> cmd.duration]

(* google_cal.py lines 198-229: the event update_event writes and returns *)
updated_event(ev, changes) ==
    IF changes.date # NoDate \/ changes.time # NoTime
      THEN [ev EXCEPT
              !.date = IF changes.date # NoDate THEN changes.date ELSE ev.date,
              !.time = IF changes.time # NoTime THEN changes.time ELSE ev.time,
              !.duration = IF changes.duration # 0 THEN changes.duration ELSE 60]
      ELSE ev

(* the store after update_event(event_id, **changes) *)
update_event(ev, changes) ==
    LET new == updated_event(ev, changes)
        rest == delete_event(ev.id)
    IN  SelectSeq(rest, LAMBDA e : ~StartLess(new, e))
          \o <<new>> \o SelectSeq(rest, LAMBDA e : StartLess(new, e))

-----------------------------------------------------------------------------
(* SessionContext, cli.py lines 59-82 *)

record(ev) ==
    /\ last_title' = ev.title
    /\ last_date' = ev.date
    /\ UNCHANGED history

record_created(ev) ==
    /\ last_title' = ev.title
    /\ last_date' = ev.date
    /\ history' = Append(history, ev)

-----------------------------------------------------------------------------
(* Helpers of the handlers *)

(* _ANAPHORA_RE: the activity is a pronoun for the last event *)
Anaphora == {"that", "it", "this"}

_NUMBER_WORDS ==
    ("one" :> 1) @@ ("two" :> 2) @@ ("three" :> 3) @@ ("four" :> 4) @@ ("five" :> 5)
    @@ ("six" :> 6) @@ ("seven" :> 7) @@ ("eight" :> 8) @@ ("nine" :> 9) @@ ("ten" :> 10)

(* int(s) of the digit strings of the model *)
DigitStrings == ("0" :> 0) @@ ("1" :> 1) @@ ("3" :> 3)

(* the index is taken as 0-based *)
_parse_event_index_Mutant(activity) ==
    IF activity \in DOMAIN DigitStrings THEN DigitStrings[activity] + 1
    ELSE IF activity \in DOMAIN _NUMBER_WORDS THEN _NUMBER_WORDS[activity] + 1
    ELSE NoSlot

(* cli.py lines 85-92 *)
_parse_event_index(activity) ==
    IF activity \in DOMAIN DigitStrings THEN DigitStrings[activity]
    ELSE IF activity \in DOMAIN _NUMBER_WORDS THEN _NUMBER_WORDS[activity]
    ELSE NoSlot

(* pairs <<a, b>> of titles of the model with a a proper substring of b *)
SubstringPairs == {<<"gym", "gym class">>}

TitleIn(a, b) == a = b \/ <<a, b>> \in SubstringPairs

(* cli.py lines 95-106; titles of the model are lower case *)
_find_event_by_title(evs, title) ==
    LET exact == {i \in 1..Len(evs) : evs[i].title = title}
        fuzzy == {i \in 1..Len(evs) :
                     TitleIn(title, evs[i].title) \/ TitleIn(evs[i].title, title)}
        First(S) == CHOOSE i \in S : \A j \in S : i <= j
    IN  IF title = None THEN NoEvent
        ELSE IF exact # {} THEN evs[First(exact)]
        ELSE IF fuzzy # {} THEN evs[First(fuzzy)]
        ELSE NoEvent

(* the handler returns *)
Returns(res) ==
    /\ outcome' = res
    /\ pc' = "idle"
    /\ all_slots' = <<>>
    /\ slot_idx' = 0

(* no Event Store mutation and no Session Memory update *)
NoMutation ==
    /\ created' = <<>>
    /\ deleted' = <<>>
    /\ UNCHANGED <<events, next_id, session_vars>>

-----------------------------------------------------------------------------
(* handle_schedule, cli.py lines 161-357 *)

(* ev = await gcal.create_event(...); ctx.record_created(ev); return       *)
(* The Event Store call succeeds or raises.  A create that records the     *)
(* event in Session Memory although the call raised:                       *)
CreateAndRecord_Mutant(title, date, time, duration, res) ==
    /\ deleted' = <<>>
    /\ \E ok \in BOOLEAN :
         LET ev == EventData(next_id, title, date, time, duration)
         IN  IF ok
               THEN /\ events' = create_event(ev)
                    /\ next_id' = next_id + 1
                    /\ created' = <<ev>>
                    /\ record_created(ev)
                    /\ Returns(res)
               ELSE /\ UNCHANGED <<events, next_id>>
                    /\ created' = <<>>
                    /\ record_created(ev)
                    /\ Returns("raised")

CreateAndRecord(title, date, time, duration, res) ==
    /\ deleted' = <<>>
    /\ \E ok \in BOOLEAN :
         LET ev == EventData(next_id, title, date, time, duration)
         IN  IF ok
               THEN /\ events' = create_event(ev)
                    /\ next_id' = next_id + 1
                    /\ created' = <<ev>>
                    /\ record_created(ev)
                    /\ Returns(res)
               ELSE /\ UNCHANGED <<events, next_id, session_vars>>
                    /\ created' = <<>>
                    /\ Returns("raised")

(* cli.py lines 243-250 *)
ScheduleRequest(cmd, date) ==
    LET time_pref == IF cmd.time_pref # None THEN cmd.time_pref ELSE default_time_pref
    IN  [activity |-> cmd.activity,
         date |-> date,
         duration |-> DurationOr(cmd),
         count |-> 1,
         days |-> ALL_DAYS,
         avoid_weekends |-> FALSE,
         working_hours_only |-> FALSE,
         prefer_morning |-> time_pref = "morning",
         prefer_afternoon |-> time_pref = "afternoon",
         prefer_evening |-> time_pref = "evening",
         max_solutions |-> 5]

(* the slots of the groups, one after the other *)
RECURSIVE Flatten(_)
Flatten(groups) ==
    IF groups = <<>> THEN <<>> ELSE Head(groups) \o Flatten(Tail(groups))

(* cli.py lines 257-265: the first slot of every (date, time) *)
AllSlots(groups) ==
    LET flat == Flatten(groups)
    IN  SelectSeq([i \in 1..Len(flat) |->
                     [s |-> flat[i],
                      first |-> \A j \in 1..(i - 1) :
                                   ~(flat[j].date = flat[i].date
                                       /\ flat[j].time = flat[i].time)]],
                  LAMBDA x : x.first)

(* cli.py lines 251-266: ask the solver; no slot, or the first suggestion *)
SolveAndSuggest(req, evs) ==
    /\ NoMutation
    /\ \E call \in find_available_slots_call(evs, blocked_slots, req, today) :
         /\ request' = req
         /\ solutions' = call.result
         /\ IF call.kind = "raised"
              THEN Returns("raised")
            ELSE IF call.kind = "error" \/ call.result = <<>>
              THEN Returns("no_slots")
            ELSE /\ outcome' = None
                 /\ pc' = "suggest"
                 /\ all_slots' = [i \in 1..Len(AllSlots(call.result)) |->
                                    AllSlots(call.result)[i].s]
                 /\ slot_idx' = 0

handle_schedule(cmd, auto_confirm) ==
    LET title == cmd.activity
        date == IF cmd.dates # <<>> THEN cmd.dates[1] ELSE today
        duration == DurationOr(cmd)
        evs == list_events(date)
        found == _check_conflict(evs, date, cmd.time, duration)
        blocks == _check_preference_block(blocked_slots, date, cmd.time, duration, today)
    IN  /\ handler' = [name |-> "handle_schedule", cmd |-> cmd,
                       auto_confirm |-> auto_confirm]
        /\ IF cmd.activity = None
             THEN /\ Returns("error") /\ NoMutation
                  /\ store_calls' = <<>>
                  /\ choice' = None
                  /\ answer' = None
                  /\ UNCHANGED <<request, solutions, check_vars>>
           ELSE IF cmd.time # NoTime
             THEN /\ check_args' = [date |-> date, time |-> cmd.time, duration |-> duration]
                  /\ conflicts' = found
                  /\ pref_blocks' = blocks
                  /\ IF found # <<>> \/ blocks # <<>>
                       THEN IF auto_confirm
                              THEN /\ choice' = None
                                   /\ answer' = None
                                   /\ store_calls' = <<"list_events", "create_event">>
                                   /\ CreateAndRecord(title, date, cmd.time, duration,
                                                      "created")
                                   /\ UNCHANGED <<request, solutions>>
                              ELSE \E ch \in {"find_next", "override", "cancel"} :
                                     /\ choice' = ch
                                     /\ answer' = ch
                                     /\ CASE ch = "cancel" ->
                                               /\ Returns("cancelled") /\ NoMutation
                                               /\ store_calls' = <<"list_events">>
                                               /\ UNCHANGED <<request, solutions>>
                                          [] ch = "override" ->
                                               /\ store_calls' =
                                                    <<"list_events", "create_event">>
                                               /\ CreateAndRecord(title, date, cmd.time,
                                                                  duration, "created")
                                               /\ UNCHANGED <<request, solutions>>
                                          [] ch = "find_next" ->
                                               /\ store_calls' = <<"list_events">>
                                               /\ SolveAndSuggest(
                                                    ScheduleRequest(cmd, date), evs)
                       ELSE /\ choice' = None
                            /\ UNCHANGED <<request, solutions>>
                            /\ \E accepted \in BOOLEAN :
                                 /\ answer' = IF auto_confirm THEN None
                                              ELSE IF accepted THEN "accepted"
                                              ELSE "declined"
                                 /\ IF auto_confirm \/ accepted
                                      THEN /\ store_calls' =
                                                <<"list_events", "create_event">>
                                           /\ CreateAndRecord(title, date, cmd.time,
                                                              duration, "created")
                                      ELSE /\ Returns("declined") /\ NoMutation
                                           /\ store_calls' = <<"list_events">>
           ELSE /\ choice' = None
                /\ answer' = None
                /\ store_calls' = <<"list_events">>
                /\ UNCHANGED check_vars
                /\ SolveAndSuggest(ScheduleRequest(cmd, date), evs)

(* times the user may type at "Enter a specific time" *)
ManualTimes == {T(9, 0), T(21, 30)}

(* preferences the user may pick at "Pick a time preference" *)
PrefChoices == {"morning"}

(* One iteration of the suggestion loop, cli.py lines 268-357 *)
ScheduleLoop ==
    /\ pc = "suggest"
    /\ LET cmd == handler.cmd
           title == cmd.activity
           date == IF cmd.dates # <<>> THEN cmd.dates[1] ELSE today
           duration == DurationOr(cmd)
           evs == list_events(date)
           idx == IF slot_idx < Len(all_slots) THEN slot_idx + 1 ELSE slot_idx
           has_more == idx < Len(all_slots)
       IN  \/ \* the suggested slot is accepted
              /\ slot_idx < Len(all_slots)
              /\ answer' = "accepted"
              /\ store_calls' = Append(store_calls, "create_event")
              /\ CreateAndRecord(title, all_slots[slot_idx + 1].date,
                                 all_slots[slot_idx + 1].time, duration, "created")
              /\ UNCHANGED <<request, solutions, check_vars>>
           \/ \* 4. Cancel
              /\ answer' = "cancel"
              /\ Returns("cancelled") /\ NoMutation
              /\ UNCHANGED <<store_calls, request, solutions, check_vars>>
           \/ \* 1. Try next slot
              /\ has_more
              /\ answer' = "try_next"
              /\ slot_idx' = idx
              /\ NoMutation
              /\ UNCHANGED <<store_calls, request, solutions, check_vars,
                             outcome, pc, all_slots>>
           \/ \* 2. Pick a time preference
              /\ answer' = "pref"
              /\ NoMutation
              /\ UNCHANGED <<store_calls, check_vars>>
              /\ \E pref \in PrefChoices :
                   LET req == [request EXCEPT !.prefer_morning = pref = "morning",
                                              !.prefer_afternoon = pref = "afternoon",
                                              !.prefer_evening = pref = "evening"]
                   IN  \E call \in find_available_slots_call(evs, blocked_slots,
                                                             req, today) :
                          /\ request' = req
                          /\ IF call.kind = "raised"
                               THEN /\ Returns("raised")
                                    /\ UNCHANGED solutions
                             ELSE IF call.kind = "ok" /\ call.result # <<>>
                               THEN /\ solutions' = call.result
                                    /\ all_slots' =
                                         [i \in 1..Len(AllSlots(call.result)) |->
                                            AllSlots(call.result)[i].s]
                                    /\ slot_idx' = 0
                                    /\ UNCHANGED <<outcome, pc>>
                             ELSE /\ slot_idx' = idx
                                  /\ UNCHANGED <<solutions, outcome, pc, all_slots>>
           \/ \* 3. Enter a specific time
              /\ UNCHANGED <<request, solutions>>
              /\ \E parsed_time \in ManualTimes, anyway \in BOOLEAN :
                   LET found == _check_conflict(evs, date, parsed_time, duration)
                       blocks == _check_preference_block(blocked_slots, date,
                                                         parsed_time, duration, today)
                   IN  /\ check_args' = [date |-> date, time |-> parsed_time,
                                         duration |-> duration]
                       /\ conflicts' = found
                       /\ pref_blocks' = blocks
                       /\ answer' = IF found = <<>> /\ blocks = <<>> THEN "manual"
                                    ELSE IF anyway THEN "anyway" ELSE "declined"
                       /\ IF (found # <<>> \/ blocks # <<>>) /\ ~anyway
                            THEN /\ slot_idx' = idx
                                 /\ NoMutation
                                 /\ UNCHANGED <<store_calls, outcome, pc, all_slots>>
                            ELSE /\ store_calls' = Append(store_calls, "create_event")
                                 /\ CreateAndRecord(title, date, parsed_time,
                                                    duration, "created")
    /\ UNCHANGED <<handler, choice>>

-----------------------------------------------------------------------------
(* handle_delete and handle_update, cli.py lines 375-494 *)

(* a delete that does not wait for the confirmation *)
DeleteAndRecord_Mutant(event, calls) ==
    /\ created' = <<>>
    /\ \E confirmed \in BOOLEAN :
       /\ answer' = IF confirmed THEN "accepted" ELSE "declined"
       /\ events' = delete_event(event.id)
       /\ deleted' = <<event>>
       /\ record(event)
       /\ Returns(IF confirmed THEN "deleted" ELSE "declined")
       /\ store_calls' = Append(calls, "delete_event")
       /\ UNCHANGED next_id

(* cli.py lines 413-419 and 441-446: confirm, delete_event, ctx.record *)
DeleteAndRecord(event, calls) ==
    /\ created' = <<>>
    /\ \E confirmed \in BOOLEAN, ok \in BOOLEAN :
       /\ answer' = IF confirmed THEN "accepted" ELSE "declined"
       /\ IF ~confirmed
           THEN /\ Returns("declined")
                /\ store_calls' = calls
                /\ deleted' = <<>>
                /\ UNCHANGED <<events, next_id, session_vars>>
         ELSE IF ok
           THEN /\ events' = delete_event(event.id)
                /\ deleted' = <<event>>
                /\ record(event)
                /\ Returns("deleted")
                /\ store_calls' = Append(calls, "delete_event")
                /\ UNCHANGED next_id
         ELSE /\ Returns("raised")
              /\ store_calls' = Append(calls, "delete_event")
              /\ deleted' = <<>>
              /\ UNCHANGED <<events, next_id, session_vars>>

(* a handler that goes on to the Event Store with an empty memory *)
ResolveAnaphora_Mutant(cmd) ==
    [known |-> TRUE,
     activity |-> IF cmd.activity \in Anaphora THEN last_title ELSE cmd.activity,
     dates |-> cmd.dates]

(* cli.py lines 377-388 and 451-462: the command after anaphora resolution *)
ResolveAnaphora(cmd) ==
    IF cmd.activity \in Anaphora
      THEN IF last_title # None
             THEN [known |-> TRUE,
                   activity |-> last_title,
                   dates |-> IF last_date # NoDate /\ cmd.dates = <<>>
                               THEN <<last_date>> ELSE cmd.dates]
             ELSE [known |-> FALSE, activity |-> cmd.activity, dates |-> cmd.dates]
      ELSE [known |-> TRUE, activity |-> cmd.activity, dates |-> cmd.dates]

handle_delete(cmd) ==
    LET res == ResolveAnaphora(cmd)
        idx == _parse_event_index(res.activity)
        date == IF res.dates # <<>> THEN res.dates[1] ELSE today
        evs == list_events(date)
        here == _find_event_by_title(evs, res.activity)
        searched == here = NoEvent /\ res.dates = <<>>
        event == IF searched
                   THEN _find_event_by_title(list_events_upcoming, res.activity)
                   ELSE here
    IN  /\ handler' = [name |-> "handle_delete", cmd |-> cmd, auto_confirm |-> FALSE]
        /\ choice' = None
        /\ UNCHANGED <<request, solutions, check_vars>>
        /\ IF ~res.known
             THEN /\ Returns("no_recent_event") /\ NoMutation /\ store_calls' = <<>>
                  /\ answer' = None
           ELSE IF res.activity = None
             THEN /\ Returns("error") /\ NoMutation /\ store_calls' = <<>>
                  /\ answer' = None
           ELSE IF idx # NoSlot
             THEN IF evs = <<>> \/ idx < 1 \/ idx > Len(evs)
                    THEN /\ Returns("error") /\ NoMutation
                         /\ store_calls' = <<"list_events">>
                         /\ answer' = None
                    ELSE DeleteAndRecord(evs[idx], <<"list_events">>)
           ELSE IF event = NoEvent
             THEN /\ Returns("not_found") /\ NoMutation
                  /\ answer' = None
                  /\ store_calls' = IF searched THEN <<"list_events", "list_events">>
                                    ELSE <<"list_events">>
           ELSE DeleteAndRecord(event, IF searched THEN <<"list_events", "list_events">>
                                       ELSE <<"list_events">>)

handle_update(cmd) ==
    LET res == ResolveAnaphora(cmd)
        event == _find_event_by_title(list_events_upcoming, res.activity)
        changes == Changes([cmd EXCEPT !.dates = res.dates])
    IN  /\ handler' = [name |-> "handle_update", cmd |-> cmd, auto_confirm |-> FALSE]
        /\ choice' = None
        /\ created' = <<>>
        /\ deleted' = <<>>
        /\ UNCHANGED <<request, solutions, check_vars, next_id>>
        /\ IF ~res.known
             THEN /\ Returns("no_recent_event") /\ store_calls' = <<>>
                  /\ answer' = None
                  /\ UNCHANGED <<events, session_vars>>
           ELSE IF res.activity = None
             THEN /\ Returns("error") /\ store_calls' = <<>>
                  /\ answer' = None
                  /\ UNCHANGED <<events, session_vars>>
           ELSE IF event = NoEvent
             THEN /\ Returns("not_found") /\ store_calls' = <<"list_events">>
                  /\ answer' = None
                  /\ UNCHANGED <<events, session_vars>>
           ELSE IF changes.time = NoTime /\ changes.date = NoDate /\ changes.duration = 0
             THEN /\ Returns("error") /\ store_calls' = <<"list_events">>
                  /\ answer' = None
                  /\ UNCHANGED <<events, session_vars>>
           ELSE \E confirmed \in BOOLEAN, ok \in BOOLEAN :
                /\ answer' = IF confirmed THEN "accepted" ELSE "declined"
                /\ IF ~confirmed
                    THEN /\ Returns("declined") /\ store_calls' = <<"list_events">>
                         /\ UNCHANGED <<events, session_vars>>
                  ELSE IF ok
                    THEN /\ events' = update_event(event, changes)
                         /\ record(updated_event(event, changes))
                         /\ Returns("updated")
                         /\ store_calls' = <<"list_events", "update_event">>
                  ELSE /\ Returns("raised")
                       /\ store_calls' = <<"list_events", "update_event">>
                       /\ UNCHANGED <<events, session_vars>>

-----------------------------------------------------------------------------
(* Specification of the dispatcher in single-command mode: handle_input,   *)
(* cli.py lines 965-985, called from the loop of async_main                *)

MaxInputs == 2

ScheduleCommands ==
    { ParsedCommand("SCHEDULE", "gym", <<2>>, T(9, 0), 600, None),
      ParsedCommand("SCHEDULE", "gym", <<2>>, T(21, 30), 600, None),
      ParsedCommand("SCHEDULE", "gym", <<2>>, NoTime, 900, None),
      ParsedCommand("SCHEDULE", QuotedActivity, <<2>>, NoTime, 900, None) }

DeleteCommands ==
    { ParsedCommand("DELETE", "that", <<>>, NoTime, 0, None),
      ParsedCommand("DELETE", "standup", <<2>>, NoTime, 0, None),
      ParsedCommand("DELETE", "1", <<>>, NoTime, 0, None),
      ParsedCommand("DELETE", "two", <<2>>, NoTime, 0, None),
      ParsedCommand("DELETE", "3", <<3>>, NoTime, 0, None),
      ParsedCommand("DELETE", "0", <<2>>, NoTime, 0, None) }

UpdateCommands ==
    { ParsedCommand("UPDATE", "it", <<>>, T(10, 0), 0, None),
      ParsedCommand("UPDATE", "standup", <<>>, T(15, 0), 0, None),
      ParsedCommand("UPDATE", "gym", <<>>, NoTime, 90, None),
      ParsedCommand("UPDATE", "gym", <<>>, NoTime, 0, None) }

StoreOptions ==
    { EventData(0, "gym", 2, T(8, 30), 60),
      EventData(0, "standup", 2, T(10, 30), 30) }

(* the ids the Event Store gave the events it holds *)
WithIds(evs) == [i \in 1..Len(evs) |-> [evs[i] EXCEPT !.id = i]]

DispatchBlocked == {<<>>, <<Block({"wednesday"}, T(8, 0), T(9, 45), NoDate)>>}

InitDispatch ==
    /\ InitCommon
    /\ NoIO
    /\ blocked_slots \in DispatchBlocked
    /\ sys_today = today
    /\ default_time_pref = None
    /\ events \in {WithIds(evs) : evs \in EventLists(StoreOptions, MaxEvents)}
    /\ op = "dispatch"
    /\ cmds = <<>>

DispatchFrame ==
    UNCHANGED <<today, sys_today, blocked_slots, default_time_pref, op, fs_args,
                free_slots, cmds, ci, pending_events, solved, failed, auto, exec_vars, io_vars>>

HandleSchedule ==
    /\ op = "dispatch" /\ pc = "idle" /\ inputs < MaxInputs
    /\ \E cmd \in ScheduleCommands : handle_schedule(cmd, FALSE)
    /\ inputs' = inputs + 1
    /\ DispatchFrame

ScheduleLoopStep ==
    /\ op = "dispatch"
    /\ ScheduleLoop
    /\ UNCHANGED inputs
    /\ DispatchFrame

HandleDelete ==
    /\ op = "dispatch" /\ pc = "idle" /\ inputs < MaxInputs
    /\ \E cmd \in DeleteCommands : handle_delete(cmd)
    /\ inputs' = inputs + 1
    /\ DispatchFrame

HandleUpdate ==
    /\ op = "dispatch" /\ pc = "idle" /\ inputs < MaxInputs
    /\ \E cmd \in UpdateCommands : handle_update(cmd)
    /\ inputs' = inputs + 1
    /\ DispatchFrame

NextDispatch == HandleSchedule \/ ScheduleLoopStep \/ HandleDelete \/ HandleUpdate

SpecDispatch == InitDispatch /\ [][NextDispatch]_vars

-----------------------------------------------------------------------------
(* Chain execution: handle_multichain, cli.py lines 874-905 *)

(* cli.py lines 360-372 *)
handle_list(cmd) ==
    /\ handler' = [name |-> "handle_list", cmd |-> cmd, auto_confirm |-> FALSE]
    /\ store_calls' = <<"list_events">>
    /\ choice' = None
    /\ answer' = None
    /\ Returns("listed")
    /\ NoMutation
    /\ UNCHANGED <<request, solutions, check_vars>>

(* the intents that have a case of the match statement *)
KnownIntents == {"SCHEDULE", "LIST", "DELETE", "UPDATE", "FIND_FREE", "FIND_OPTIMAL"}

(* case _: "Unknown intent ..., skipping." *)
unknown_intent(cmd) ==
    /\ handler' = [name |-> None, cmd |-> cmd, auto_confirm |-> FALSE]
    /\ store_calls' = <<>>
    /\ choice' = None
    /\ answer' = None
    /\ Returns("unknown_intent")
    /\ NoMutation
    /\ UNCHANGED <<request, solutions, check_vars>>

ExecFrame ==
    UNCHANGED <<today, sys_today, blocked_slots, default_time_pref, fs_args,
                free_slots, cmds, ci, pending_events, solved, failed, auto, inputs,
                io_vars>>

(* the loop goes on to the next command whatever the answer *)
AfterHandler_Mutant ==
    IF outcome' = "raised"
      THEN /\ choice2' \in {"S", "X"}
           /\ xi' = xi + 1
           /\ UNCHANGED op
      ELSE /\ choice2' = None
           /\ xi' = xi + 1
           /\ UNCHANGED op

(* cli.py lines 896-904: "except Exception": the prompt "[S]kip and        *)
(* continue [X] Cancel remaining"; X returns from handle_multichain        *)
AfterHandler ==
    IF outcome' = "raised"
      THEN /\ choice2' \in {"S", "X"}
           /\ IF choice2' = "X"
                THEN /\ op' = "aborted"
                     /\ UNCHANGED xi
                ELSE /\ xi' = xi + 1
                     /\ UNCHANGED op
      ELSE /\ choice2' = None
           /\ xi' = xi + 1
           /\ UNCHANGED op

(* every SCHEDULE command is skipped, timed or not *)
SkipsCommand_Mutant(cmd) == cmd.intent = "SCHEDULE"

(* cli.py line 876: a SCHEDULE command that still has no time *)
SkipsCommand(cmd) == cmd.intent = "SCHEDULE" /\ cmd.time = NoTime

(* One iteration of the loop "for i, cmd in enumerate(cmds)" *)
ExecStep ==
    /\ op = "exec"
    /\ xi < Len(cmds)
    /\ LET cmd == cmds[xi + 1]
       IN  IF SkipsCommand(cmd)
             THEN /\ skipped' = Append(skipped, xi)
                  /\ xi' = xi + 1
                  /\ choice2' = None
                  /\ UNCHANGED <<op, dispatched, events, request, solutions,
                                 check_vars, session_vars, next_id, store_calls,
                                 handler, outcome, pc, all_slots, slot_idx,
                                 created, deleted, choice, answer>>
             ELSE /\ dispatched' = Append(dispatched, xi)
                  /\ UNCHANGED skipped
                  /\ CASE cmd.intent = "SCHEDULE" -> handle_schedule(cmd, TRUE)
                       [] cmd.intent = "LIST" -> handle_list(cmd)
                       [] cmd.intent = "DELETE" -> handle_delete(cmd)
                       [] cmd.intent = "UPDATE" -> handle_update(cmd)
                       [] cmd.intent \notin KnownIntents -> unknown_intent(cmd)
                  /\ AfterHandler
    /\ ExecFrame

(* the loop is over: return *)
ExecReturn ==
    /\ op = "exec"
    /\ xi = Len(cmds)
    /\ op' = "executed"
    /\ UNCHANGED <<events, request, solutions, check_vars, session_vars,
                   handler_vars, exec_vars, io_vars>>
    /\ ExecFrame

ExecCommandOptions ==
    { ParsedCommand("SCHEDULE", "gym", <<2>>, T(9, 0), 600, None),
      ParsedCommand("SCHEDULE", "gym", <<5>>, NoTime, 0, None),
      ParsedCommand("LIST", None, <<2>>, NoTime, 0, None),
      ParsedCommand("DELETE", "that", <<>>, NoTime, 0, None),
      ParsedCommand("UNKNOWN", None, <<>>, NoTime, 0, None) }

(* a day-long event: the pre-solver found no slot on that date *)
FullDay == EventData(0, "offsite", 5, T(6, 0), 960)

InitExec ==
    /\ InitCommon
    /\ NoIO
    /\ blocked_slots \in DispatchBlocked
    /\ sys_today = today
    /\ default_time_pref = None
    /\ events \in {WithIds(evs \o <<FullDay>>) : evs \in EventLists(StoreOptions, MaxEvents)}
    /\ op = "exec"
    /\ cmds \in UNION {[1..n -> ExecCommandOptions] : n \in 2..MaxChain}

NextExec == ExecStep \/ ExecReturn

SpecExec == InitExec /\ [][NextExec]_vars

(* A session: the input is a single command (handle_input) or a confirmed  *)
(* chain (handle_multichain).                                              *)
InitSession == InitDispatch \/ InitExec

NextSession == NextDispatch \/ NextExec

SpecSession == InitSession /\ [][NextSession]_vars

-----------------------------------------------------------------------------
(* Rule Parser: intent.py, date_parser.py                                  *)
(*                                                                         *)
(* A text is the sequence of its white-space separated tokens: a word, a   *)
(* number of one to four digits, or a clock "h:mm".  "3pm" is the number 3 *)
(* followed by the word "pm" (the regexes allow \s* between them).         *)

Wd(word) == [w |-> word, n |-> -1, m |-> -1]
Nm(num) == [w |-> "#", n |-> num, m |-> -1]
Hm(hh, mm) == [w |-> ":", n |-> hh, m |-> mm]

(* the least element of a non-empty set of positions: re.search returns    *)
(* the leftmost match                                                      *)
Leftmost(S) == CHOOSE i \in S : \A j \in S : i <= j

(* a phrase (sequence of words) occurs in the text at position i *)
PhraseAt(txt, phrase, i) ==
    /\ i + Len(phrase) - 1 <= Len(txt)
    /\ \A k \in 1..Len(phrase) : txt[i + k - 1] = Wd(phrase[k])

Search(txt, phrases) ==
    \E p \in phrases : \E i \in 1..Len(txt) : PhraseAt(txt, p, i)

(* intent.py line 50: \bat\s+(\d{1,2})(?::(\d{2}))?\s*(am|pm)\b *)
_TIME_12H(txt) ==
    {i \in 1..(Len(txt) - 2) :
        /\ txt[i] = Wd("at")
        /\ txt[i + 1].w \in {"#", ":"}
        /\ txt[i + 1].n < 100
        /\ txt[i + 2].w \in {"am", "pm"}}

(* intent.py line 51: \bat\s+(\d{1,2}):(\d{2})\b *)
_TIME_24H(txt) ==
    {i \in 1..(Len(txt) - 1) :
        /\ txt[i] = Wd("at")
        /\ txt[i + 1].w = ":"}

(* the words the negative lookahead of _TIME_BARE excludes *)
BareLookahead ==
    {"am", "pm", "hour", "hours", "hr", "hrs", "h",
     "minute", "minutes", "min", "mins", "m"}

(* intent.py line 53: \bat\s+(\d{1,2})\b(?!\s*(?:am|pm|:\d|hours?|...)) *)
_TIME_BARE(txt) ==
    {i \in 1..(Len(txt) - 1) :
        /\ txt[i] = Wd("at")
        /\ txt[i + 1].w = "#"
        /\ txt[i + 1].n < 100
        /\ ~(i + 2 <= Len(txt) /\ txt[i + 2].w \in BareLookahead)}

(* the bare-hour rule applied to every hour, also to 7..12 *)
BareHour_Mutant(hour) == hour + 12

(* intent.py lines 79-81: 1-6 = PM, 7-12 = AM *)
BareHour(hour) == IF 1 <= hour /\ hour <= 6 THEN hour + 12 ELSE hour

(* intent.py lines 60-85 *)
_extract_time(txt) ==
    IF _TIME_12H(txt) # {}
      THEN LET i == Leftmost(_TIME_12H(txt))
               hour == txt[i + 1].n
               minute == IF txt[i + 1].w = ":" THEN txt[i + 1].m ELSE 0
               mer == txt[i + 2].w
           IN  T(IF mer = "pm" /\ hour # 12 THEN hour + 12
                 ELSE IF mer = "am" /\ hour = 12 THEN 0
                 ELSE hour, minute)
    ELSE IF _TIME_24H(txt) # {}
      THEN LET i == Leftmost(_TIME_24H(txt))
           IN  T(txt[i + 1].n, txt[i + 1].m)
    ELSE IF _TIME_BARE(txt) # {}
      THEN LET i == Leftmost(_TIME_BARE(txt))
               hour == BareHour(txt[i + 1].n)
           IN  IF 0 <= hour /\ hour <= 23 THEN T(hour, 0) ELSE NoTime
    ELSE NoTime

DurationUnits ==
    {"hour", "hours", "hr", "hrs", "h", "minute", "minutes", "min", "mins", "m"}

(* intent.py lines 54-55: a number followed by a unit *)
_DURATION(txt) ==
    {i \in 1..(Len(txt) - 1) :
        txt[i].w = "#" /\ txt[i + 1].w \in DurationUnits}

(* intent.py lines 88-94; an absent duration is 0 *)
_extract_duration(txt) ==
    IF _DURATION(txt) = {} THEN 0
    ELSE LET i == Leftmost(_DURATION(txt))
         IN  IF txt[i + 1].w \in {"hour", "hours", "hr", "hrs", "h"}
               THEN txt[i].n * 60
               ELSE txt[i].n

TimePrefWords == {"morning", "afternoon", "evening", "night"}

(* intent.py lines 97-102 *)
_extract_time_pref(txt) ==
    LET S == {i \in 1..Len(txt) : txt[i].w \in TimePrefWords}
    IN  IF S = {} THEN None
        ELSE IF txt[Leftmost(S)].w = "night" THEN "evening"
        ELSE txt[Leftmost(S)].w

(* intent.py lines 31-48: (intent_name, pattern, priority) in list order;  *)
(* a pattern is the set of its alternatives, each a phrase; HELP is        *)
(* anchored to the whole text.                                             *)
_INTENT_PATTERNS ==
    << [name |-> "HELP", priority |-> 10, anchored |-> TRUE,
        phrases |-> {<<"help">>, <<"commands">>}],
       [name |-> "PREFERENCES", priority |-> 8, anchored |-> FALSE,
        phrases |-> {<<"preference">>, <<"preferences">>, <<"setting">>,
                     <<"settings">>, <<"block">>, <<"blocked">>, <<"configure">>}],
       [name |-> "FIND_OPTIMAL", priority |-> 9, anchored |-> FALSE,
        phrases |-> {<<"best", "time">>, <<"optimal">>, <<"when", "should", "i">>,
                     <<"suggest">>, <<"recommend">>}],
       [name |-> "FIND_FREE", priority |-> 8, anchored |-> FALSE,
        phrases |-> {<<"free">>, <<"available">>, <<"open", "slot">>,
                     <<"open", "slots">>, <<"when", "am", "i", "free">>}],
       [name |-> "DELETE", priority |-> 7, anchored |-> FALSE,
        phrases |-> {<<"delete">>, <<"cancel">>, <<"remove">>}],
       [name |-> "UPDATE", priority |-> 7, anchored |-> FALSE,
        phrases |-> {<<"move">>, <<"change">>, <<"reschedule">>, <<"update">>,
                     <<"push", "back">>, <<"bring", "forward">>}],
       [name |-> "SCHEDULE", priority |-> 6, anchored |-> FALSE,
        phrases |-> {<<"schedule">>, <<"add">>, <<"create">>, <<"book">>,
                     <<"set", "up">>, <<"plan">>}],
       [name |-> "LIST", priority |-> 5, anchored |-> FALSE,
        phrases |-> {<<"list">>, <<"show">>, <<"events">>, <<"calendar">>,
                     <<"plans">>, <<"agenda">>, <<"do", "i", "have">>,
                     <<"today">>, <<"tomorrow">>}] >>

(* pattern.search(text) *)
PatternMatches(pat, txt) ==
    IF pat.anchored
      THEN \E p \in pat.phrases : Len(txt) = Len(p) /\ PhraseAt(txt, p, 1)
      ELSE Search(txt, pat.phrases)

(* intent.py lines 176-183: the first entry of the list that matches *)
MatchIntent(txt) ==
    LET S == {k \in 1..Len(_INTENT_PATTERNS) : PatternMatches(_INTENT_PATTERNS[k], txt)}
    IN  IF S = {} THEN "UNKNOWN" ELSE _INTENT_PATTERNS[Leftmost(S)].name

(* date_parser.py lines 37-53: _fix_typos, word by word *)
_TYPOS(word) ==
    CASE word \in {"tommorow", "tomorow", "tmrw", "tmr"} -> "tomorrow"
      [] word \in {"yesteday", "ysterday"} -> "yesterday"
      [] word \in {"firday"} -> "friday"
      [] OTHER -> word

_fix_typos(txt) ==
    [i \in 1..Len(txt) |->
        IF txt[i].n = -1 THEN Wd(_TYPOS(txt[i].w)) ELSE txt[i]]

(* A calendar date 'YYYY-MM-DD' of the parser *)
Ymd(yy, mm, dd) == [y |-> yy, m |-> mm, d |-> dd]

YmdLess(a, b) ==
    \/ a.y < b.y
    \/ a.y = b.y /\ a.m < b.m
    \/ a.y = b.y /\ a.m = b.m /\ a.d < b.d

(* calendar.monthrange(year, month)[1] *)
DaysIn(yy, mm) ==
    IF mm = 2
      THEN (IF yy % 4 = 0 /\ (yy % 100 # 0 \/ yy % 400 = 0) THEN 29 ELSE 28)
    ELSE IF mm \in {4, 6, 9, 11} THEN 30 ELSE 31

(* the calendar date of a day ordinal; ordinal 0 is Monday 2026-02-16 *)
OrdYmd(o) ==
    IF 16 + o < 1 THEN Ymd(2026, 1, 31 + 16 + o)
    ELSE IF 16 + o <= 28 THEN Ymd(2026, 2, 16 + o)
    ELSE Ymd(2026, 3, o - 12)

(* date_parser.py lines 10-23, in the order of the dict *)
MONTH_NAMES ==
    << <<"january", 1>>, <<"jan", 1>>, <<"february", 2>>, <<"feb", 2>>,
       <<"march", 3>>, <<"mar", 3>>, <<"april", 4>>, <<"apr", 4>>, <<"may", 5>>,
       <<"june", 6>>, <<"jun", 6>>, <<"july", 7>>, <<"jul", 7>>,
       <<"august", 8>>, <<"aug", 8>>, <<"september", 9>>, <<"sep", 9>>,
       <<"sept", 9>>, <<"october", 10>>, <<"oct", 10>>, <<"november", 11>>,
       <<"nov", 11>>, <<"december", 12>>, <<"dec", 12>> >>

MonthWords == {MONTH_NAMES[k][1] : k \in 1..Len(MONTH_NAMES)}

MonthNum(word) ==
    MONTH_NAMES[CHOOSE k \in 1..Len(MONTH_NAMES) : MONTH_NAMES[k][1] = word][2]

(* date_parser.py lines 25-34, in the order of the dict (full names) *)
WEEKDAY_NAMES ==
    << <<"sunday", 6>>, <<"monday", 0>>, <<"tuesday", 1>>, <<"wednesday", 2>>,
       <<"thursday", 3>>, <<"friday", 4>>, <<"saturday", 5>> >>

HasWord(txt, word) == \E i \in 1..Len(txt) : txt[i] = Wd(word)

(* (\d{1,2}) at the start of a number: its first two digits *)
FirstDigits(num) ==
    IF num < 100 THEN num ELSE IF num < 1000 THEN num \div 10 ELSE num \div 100

(* (\d{4}) *)
FourDigits(tok) == tok.w = "#" /\ 1000 <= tok.n /\ tok.n <= 9999

(* date_parser.py line 120: (\w+)\s+(\d{1,2})(?:st|nd|rd|th)?(?:\s*,?\s*(\d{4}))?  *)
(* matches a token followed by a number or by the hour of a clock. *)
DatePattern1(txt) ==
    {i \in 1..(Len(txt) - 1) : txt[i + 1].w \in {"#", ":"}}

(* date_parser.py line 121:                                                *)
(* (\d{1,2})(?:st|nd|rd|th)?\s+(?:of\s+)?(\w+)(?:\s*,?\s*(\d{4}))?         *)
(* matches a number, or the minutes of a clock, followed by a token.       *)
DatePattern2(txt) ==
    {i \in 1..(Len(txt) - 1) : txt[i].w \in {"#", ":"}}

(* the groups (month_str, day, year) of the leftmost match; year 0 when    *)
(* the group is absent, month_str "#" when it is made of digits            *)
Groups1(txt) ==
    LET i == Leftmost(DatePattern1(txt))
        two == txt[i + 1].w = "#" /\ txt[i + 1].n < 100
    IN  [month_str |-> IF txt[i].n = -1 THEN txt[i].w ELSE "#",
         day |-> FirstDigits(txt[i + 1].n),
         year |-> IF two /\ i + 2 <= Len(txt) /\ FourDigits(txt[i + 2])
                    THEN txt[i + 2].n ELSE 0]

Groups2(txt) ==
    LET i == Leftmost(DatePattern2(txt))
        j == IF i + 2 <= Len(txt) /\ txt[i + 1] = Wd("of") THEN i + 2 ELSE i + 1
    IN  [month_str |-> IF txt[j].n = -1 THEN txt[j].w ELSE "#",
         day |-> IF txt[i].w = ":" THEN txt[i].m ELSE txt[i].n % 100,
         year |-> IF txt[j].n = -1 /\ j + 1 <= Len(txt) /\ FourDigits(txt[j + 1])
                    THEN txt[j + 1].n ELSE 0]

(* date_parser.py lines 137-139 *)
MonthDayYear(month_num, day, year, now) ==
    IF year # 0 THEN year
    ELSE IF month_num < now.m THEN now.y + 1
    ELSE now.y

(* date_parser.py lines 127-146: the date of the groups, <<>> when the     *)
(* month is not a month name or datetime() raises ValueError               *)
MonthDay(g, now) ==
    IF g.month_str \notin MonthWords THEN <<>>
    ELSE LET month_num == MonthNum(g.month_str)
             year == MonthDayYear(month_num, g.day, g.year, now)
         IN  IF 1 <= g.day /\ g.day <= DaysIn(year, month_num)
               THEN <<Ymd(year, month_num, g.day)>>
               ELSE <<>>

(* date_parser.py lines 149-160 *)
BareMonth(txt, now) ==
    LET S == {k \in 1..Len(MONTH_NAMES) : HasWord(txt, MONTH_NAMES[k][1])}
    IN  IF S = {} THEN <<>>
        ELSE LET month_num == MONTH_NAMES[Leftmost(S)][2]
                 year == IF month_num < now.m THEN now.y + 1 ELSE now.y
             IN  [d \in 1..DaysIn(year, month_num) |-> Ymd(year, month_num, d)]

(* date_parser.py lines 56-162: the "dates" of the result; now is the day  *)
(* ordinal of get_now()                                                    *)
parse_date_from_query(message, now) ==
    LET txt == _fix_typos(message)
        weekday == now % 7
        W == {k \in 1..Len(WEEKDAY_NAMES) : HasWord(txt, WEEKDAY_NAMES[k][1])}
    IN  IF HasWord(txt, "today") THEN <<OrdYmd(now)>>
        ELSE IF HasWord(txt, "tomorrow") THEN <<OrdYmd(now + 1)>>
        ELSE IF HasWord(txt, "yesterday") THEN <<OrdYmd(now - 1)>>
        ELSE IF Search(txt, {<<"this", "week">>})
          THEN [i \in 1..7 |-> OrdYmd(now - weekday + i - 1)]
        ELSE IF Search(txt, {<<"next", "week">>})
          THEN [i \in 1..7 |-> OrdYmd(now + 7 - weekday + i - 1)]
        ELSE IF W # {}
          THEN LET day_num == WEEKDAY_NAMES[Leftmost(W)][2]
                   a1 == day_num - weekday + (IF HasWord(txt, "next") THEN 7 ELSE 0)
                   days_ahead == IF a1 <= 0 THEN a1 + 7 ELSE a1
               IN  <<OrdYmd(now + days_ahead)>>
        ELSE LET d1 == IF DatePattern1(txt) = {} THEN <<>>
                       ELSE MonthDay(Groups1(txt), OrdYmd(now))
                 d2 == IF DatePattern2(txt) = {} THEN <<>>
                       ELSE MonthDay(Groups2(txt), OrdYmd(now))
             IN  IF d1 # <<>> THEN d1
                 ELSE IF d2 # <<>> THEN d2
                 ELSE BareMonth(txt, OrdYmd(now))

(* the tokens a regex with the match starts S, each of length L[i],        *)
(* leaves: re.sub takes the non-overlapping matches from left to right     *)
RECURSIVE Cut(_, _, _)
Cut(txt, L, i) ==
    IF i > Len(txt) THEN <<>>
    ELSE IF L[i] > 0 THEN Cut(txt, L, i + L[i])
    ELSE <<txt[i]>> \o Cut(txt, L, i + 1)

Sub(txt, S, len) == Cut(txt, [i \in 1..Len(txt) |-> IF i \in S THEN len ELSE 0], 1)

DateWords == {"today", "tomorrow", "yesterday"}

WeekdayWords == {WEEKDAY_NAMES[k][1] : k \in 1..Len(WEEKDAY_NAMES)}

(* intent.py lines 131-136 *)
VerbWords(intent) ==
    CASE intent = "SCHEDULE" -> {"schedule", "add", "create", "book", "plan"}
      [] intent = "DELETE" -> {"delete", "cancel", "remove"}
      [] intent = "UPDATE" -> {"move", "change", "reschedule", "update"}
      [] OTHER -> {}

(* r.sub("", cleaned) for the time and duration patterns *)
SubPattern(txt, r) ==
    CASE r = "_TIME_12H" -> Sub(txt, _TIME_12H(txt), 3)
      [] r = "_TIME_24H" -> Sub(txt, _TIME_24H(txt), 2)
      [] r = "_TIME_BARE" -> Sub(txt, _TIME_BARE(txt), 2)
      [] r = "_DURATION" -> Sub(txt, _DURATION(txt), 2)

(* re.sub of a pattern that matches one word of a set *)
SubWords(txt, words) == Sub(txt, {i \in 1..Len(txt) : txt[i].w \in words}, 1)

(* intent.py line 147: a trailing preposition is dropped *)
StripTrailing(txt) ==
    IF txt # <<>> /\ txt[Len(txt)].w \in {"at", "on", "for", "from", "to"}
      THEN SubSeq(txt, 1, Len(txt) - 1) ELSE txt

(* intent.py lines 142-150: the time, duration, preference and date        *)
(* fragments are removed one regex after the other                         *)
Removals(txt) ==
    StripTrailing(
      SubWords(SubWords(SubWords(SubWords(
        SubPattern(SubPattern(SubPattern(SubPattern(txt, "_TIME_12H"), "_TIME_24H"),
                              "_TIME_BARE"), "_DURATION"),
        TimePrefWords), DateWords), WeekdayWords), MonthWords))

(* intent.py lines 115-166: the words left of the text; <<>> is None *)
_extract_activity(txt, intent) ==
    SubWords(Removals(IF txt # <<>> /\ txt[1].w \in VerbWords(intent)
                        THEN Tail(txt) ELSE txt),
             {"a", "an", "the", "my", "me"})

(* intent.py lines 169-213; the confidence in hundredths *)
regex_classify(user_input, now) ==
    LET txt == _fix_typos(user_input)
        intent == MatchIntent(txt)
        dates == parse_date_from_query(txt, now)
        time == _extract_time(txt)
        activity == IF intent \in {"SCHEDULE", "DELETE", "UPDATE", "FIND_OPTIMAL"}
                      THEN _extract_activity(txt, intent) ELSE <<>>
    IN  [intent |-> intent, activity |-> activity, dates |-> dates,
         time |-> time, duration |-> _extract_duration(txt),
         time_pref |-> _extract_time_pref(txt),
         confidence |-> IF txt = <<>> THEN 0
                        ELSE IF intent = "UNKNOWN" THEN 30
                        ELSE IF dates # <<>> \/ time # NoTime \/ activity # <<>>
                          THEN 100
                        ELSE 90]

(* The Rule Parser applied to a text: SpecParse *)

MaxTokens == 3

IntentTokens ==
    {Wd(w) : w \in {"help", "settings", "suggest", "free", "cancel", "move",
                    "schedule", "show", "gym"}}

TimeTokens ==
    {Wd("at"), Nm(2), Nm(9), Nm(12), Nm(0), Hm(15, 30), Wd("pm"), Wd("hours"),
     Wd("gym")}

DateTokens ==
    {Wd("february"), Wd("january"), Wd("march"), Nm(10), Nm(18), Nm(30),
     Nm(2027), Wd("tmrw"), Wd("gym")}

TextsOver(tokens) == UNION {[1..n -> tokens] : n \in 1..MaxTokens}

Texts == TextsOver(IntentTokens) \cup TextsOver(TimeTokens) \cup TextsOver(DateTokens)

ParseFrame ==
    UNCHANGED <<today, sys_today, events, blocked_slots, default_time_pref,
                request, solutions, fs_args, free_slots, cmds, ci,
                pending_events, solved, failed, auto, check_vars, session_vars,
                handler_vars, exec_vars, text, nl, raw_cfg, new_slot,
                gcal, http, cfg, loop>>

InitParse ==
    /\ InitCommon
    /\ sys_today = today
    /\ default_time_pref = None
    /\ events = <<>>
    /\ cmds = <<>>
    /\ op = "init"
    /\ text \in Texts
    /\ nl = None
    /\ parsed = None
    /\ NoPrefs
    /\ NoStore
    /\ NoLoop

RegexClassify ==
    /\ op = "init"
    /\ parsed' = regex_classify(text, today)
    /\ op' = "regex_classify"
    /\ ParseFrame

ExtractTime ==
    /\ op = "init"
    /\ parsed' = _extract_time(text)
    /\ op' = "_extract_time"
    /\ ParseFrame

ParseDateFromQuery ==
    /\ op = "init"
    /\ parsed' = parse_date_from_query(text, today)
    /\ op' = "parse_date_from_query"
    /\ ParseFrame

NextParse == RegexClassify \/ ExtractTime \/ ParseDateFromQuery

SpecParse == InitParse /\ [][NextParse]_vars

-----------------------------------------------------------------------------
(* Intent pipeline: classify, intent.py lines 216-228; ollama.py           *)

(* ollama.py lines 31-41: the probe of /api/tags answers 200 or another    *)
(* status, or httpx.get raises; only ConnectError and TimeoutException are *)
(* caught.  TRUE, FALSE, or "raised".                                      *)
ollama_available(probe) ==
    CASE probe = "200" -> "yes"
      [] probe \in {"503", "ConnectError", "TimeoutException"} -> "no"
      [] probe = "ReadError" -> "raised"

(* ollama.py lines 14-18 *)
_clean(val) == IF val \in {"null", "none", ""} THEN None ELSE val

ValidIntents == {"SCHEDULE", "LIST", "DELETE", "UPDATE", "FIND_FREE", "FIND_OPTIMAL"}

(* ollama.py lines 63-65: "Time fallback - if Ollama returned null, try    *)
(* regex on the raw input"                                                 *)
TimeFallback(time_val, user_input) ==
    IF time_val = NoTime THEN _extract_time(user_input) ELSE time_val

(* ollama.py lines 49-117; data is one object of the JSON array *)
_build_parsed_command(data, user_input, now) ==
    LET intent == IF data.intent \in ValidIntents THEN data.intent ELSE "UNKNOWN"
        resolved == IF data.date = <<>> THEN <<>>
                    ELSE parse_date_from_query(data.date, now)
        dates == IF data.date = <<>> THEN <<>>
                 ELSE IF resolved # <<>> THEN resolved
                 ELSE <<data.date>>
    IN  [intent |-> intent, activity |-> data.activity, dates |-> dates,
         time |-> TimeFallback(data.time, user_input),
         duration |-> data.duration,
         time_pref |-> _clean(data.time_pref),
         confidence |-> 95]

NoCmd == [intent |-> None]

(* ollama.py lines 119-193: the call raises (transport error, timeout,     *)
(* status, json.loads, result[0] of an empty array) or returns the first   *)
(* command of the reply                                                    *)
ollama_classify(user_input, reply, now) ==
    IF reply.kind = "array"
      THEN [kind |-> "returned",
            cmd |-> _build_parsed_command(reply.item, user_input, now)]
      ELSE [kind |-> "raised", cmd |-> NoCmd]

(* intent.py lines 216-228 *)
classify(user_input, service, now) ==
    LET available == ollama_available(service.probe)
        called == ollama_classify(user_input, service.reply, now)
    IN  IF available = "raised" THEN [kind |-> "raised", cmd |-> NoCmd]
        ELSE IF available = "yes" /\ service.ollama_enabled /\ called.kind = "returned"
          THEN called
        ELSE [kind |-> "returned", cmd |-> regex_classify(user_input, now)]

(* The replies of the NL parser *)
Item(intent, time, date) ==
    [intent |-> intent, activity |-> <<Wd("gym")>>, date |-> date, time |-> time,
     duration |-> 0, time_pref |-> "null"]

NoItem == Item(None, NoTime, <<>>)

Replies ==
    {[kind |-> k, item |-> NoItem] :
        k \in {"ConnectError", "ReadTimeout", "JSONDecodeError", "empty array"}}
    \cup {[kind |-> "array", item |-> Item(i, t, d)] :
             i \in {"SCHEDULE", "DELETE", "REMIND"},
             t \in {NoTime, T(15, 0)},
             d \in {<<>>, <<Wd("tomorrow")>>}}

Probes == {"200", "503", "ConnectError", "TimeoutException", "ReadError"}

ClassifyTexts ==
    { <<Wd("schedule"), Wd("gym"), Wd("at"), Nm(2)>>,
      <<Wd("schedule"), Wd("gym"), Wd("tomorrow")>>,
      <<Wd("cancel"), Wd("gym")>>,
      <<Wd("gym")>> }

InitClassify ==
    /\ InitCommon
    /\ sys_today = today
    /\ default_time_pref = None
    /\ events = <<>>
    /\ cmds = <<>>
    /\ op = "init"
    /\ text \in ClassifyTexts
    /\ nl \in [probe : Probes, ollama_enabled : BOOLEAN, reply : Replies]
    /\ parsed = None
    /\ NoPrefs
    /\ NoStore
    /\ NoLoop

Classify ==
    /\ op = "init"
    /\ parsed' = classify(text, nl, today)
    /\ op' = "classify"
    /\ ParseFrame

NextClassify == Classify

SpecClassify == InitClassify /\ [][NextClassify]_vars

-----------------------------------------------------------------------------
(* Preferences menu: handle_preferences, cli.py lines 539-675              *)
(*                                                                         *)
(* What the user types is a string: the sequence of its characters, a      *)
(* digit 0..9 or the colon, which sorts after the digits.                  *)

Colon == 10

(* "H:MM" and "HH:MM" *)
Str1(hh, mm) == <<hh, Colon, mm \div 10, mm % 10>>
Str2(hh, mm) == <<hh \div 10, hh % 10, Colon, mm \div 10, mm % 10>>

(* cli.py line 588: ^\d{1,2}:\d{2}$ *)
time_pat(str) ==
    \/ /\ Len(str) = 4
       /\ str[1] < Colon /\ str[2] = Colon /\ str[3] < Colon /\ str[4] < Colon
    \/ /\ Len(str) = 5
       /\ str[1] < Colon /\ str[2] < Colon /\ str[3] = Colon
       /\ str[4] < Colon /\ str[5] < Colon

(* a < b on Python strings: by code point, a proper prefix first *)
RECURSIVE StrLess(_, _)
StrLess(a, b) ==
    IF b = <<>> THEN FALSE
    ELSE IF a = <<>> THEN TRUE
    ELSE IF Head(a) # Head(b) THEN Head(a) < Head(b)
    ELSE StrLess(Tail(a), Tail(b))

(* cli.py line 602: if end <= start *)
EndRejected(start, end) == end = start \/ StrLess(end, start)

MaxSlots == 2

TimeInputs ==
    {Str1(9, 0), Str2(9, 0), Str2(10, 0), Str1(8, 30), Str2(17, 0), <<9, 0, 0>>}

PrefsFrame ==
    UNCHANGED <<today, sys_today, events, blocked_slots,
                op, request, solutions, fs_args, free_slots, cmds, ci,
                pending_events, solved, failed, auto, check_vars, session_vars,
                next_id, store_calls, handler, all_slots, slot_idx, created,
                deleted, choice, answer, inputs, exec_vars, text, nl, parsed,
                gcal, http, loop>>

(* a blocked slot of the saved config *)
Slot(label, days, start, end, until) ==
    [label |-> label, days |-> days, start |-> start, end |-> end, until |-> until]

(* the saved config when the menu is opened: nothing, or a window that has  *)
(* expired                                                                 *)
SavedSlots == {<<>>, <<Slot("Lunch", ALL_DAYS, Str2(9, 0), Str2(10, 0), 1)>>}

(* the answers to "How long should this block last?" *)
UntilInputs == {NoDate, 5}

InitPrefs ==
    /\ InitCommon
    /\ blocked_slots = <<>>
    /\ sys_today = today
    /\ default_time_pref \in {None, "morning"}
    /\ events = <<>>
    /\ cmds = <<>>
    /\ op = "preferences"
    /\ text = <<>>
    /\ nl = None
    /\ parsed = None
    /\ raw_cfg \in SavedSlots
    /\ new_slot = None
    /\ NoStore
    /\ cfg \in [ollama_setup_declined : BOOLEAN, ollama_enabled : {TRUE}]
    /\ loop = None

(* config.py lines 97-111: the slots the menu shows, expired ones left out *)
ShownSlots(slots) ==
    SelectSeq(slots, LAMBDA sl : ~(sl.until # NoDate /\ sl.until < today))

(* cli.py lines 643-649: the entries with the label, start, end and days of *)
(* the picked one are filtered out                                          *)
RemoveMatching(slots, slot) ==
    SelectSeq(slots, LAMBDA sl :
        ~(sl.label = slot.label /\ sl.start = slot.start
            /\ sl.end = slot.end /\ sl.days = slot.days))

(* choice "1": add a blocked time slot; the label and the days are asked    *)
AddBlockedSlot ==
    /\ op = "preferences"
    /\ pc = "idle"
    /\ Len(raw_cfg) < MaxSlots
    /\ pc' = "start"
    /\ outcome' = None
    /\ new_slot' = [label |-> "Lunch", days |-> ALL_DAYS]
    /\ UNCHANGED <<raw_cfg, default_time_pref, cfg>>
    /\ PrefsFrame

(* cli.py lines 590-595: the prompt "Start time" *)
AskStart ==
    /\ op = "preferences"
    /\ pc = "start"
    /\ \E start \in TimeInputs :
         IF ~time_pat(start)
           THEN /\ outcome' = "invalid_format"
                /\ UNCHANGED <<pc, new_slot>>
           ELSE /\ new_slot' = [label |-> new_slot.label, days |-> new_slot.days,
                                start |-> start]
                /\ pc' = "end"
                /\ outcome' = None
    /\ UNCHANGED <<raw_cfg, default_time_pref, cfg>>
    /\ PrefsFrame

(* cli.py lines 597-626: the prompt "End time", the prompt "How long should *)
(* this block last?", then the slot is appended and saved                   *)
AskEnd ==
    /\ op = "preferences"
    /\ pc = "end"
    /\ \E end \in TimeInputs, until \in UntilInputs :
         IF ~time_pat(end)
           THEN /\ outcome' = "invalid_format"
                /\ UNCHANGED <<pc, new_slot, raw_cfg>>
         ELSE IF EndRejected(new_slot.start, end)
           THEN /\ outcome' = "end_must_be_after"
                /\ UNCHANGED <<pc, new_slot, raw_cfg>>
         ELSE /\ raw_cfg' = Append(raw_cfg, Slot(new_slot.label, new_slot.days,
                                                 new_slot.start, end, until))
              /\ new_slot' = None
              /\ pc' = "idle"
              /\ outcome' = "added"
    /\ UNCHANGED <<default_time_pref, cfg>>
    /\ PrefsFrame

(* choice "2", cli.py lines 629-650: remove a blocked slot *)
RemoveBlockedSlot ==
    /\ op = "preferences"
    /\ pc = "idle"
    /\ LET blocked == ShownSlots(raw_cfg)
       IN  IF blocked = <<>>
             THEN /\ outcome' = "no_blocked_slots"
                  /\ UNCHANGED <<raw_cfg, new_slot>>
           ELSE \E pick \in 1..Len(blocked), confirmed \in BOOLEAN :
                  /\ new_slot' = [pick |-> pick]
                  /\ IF confirmed
                       THEN /\ raw_cfg' = RemoveMatching(raw_cfg, blocked[pick])
                            /\ outcome' = "removed"
                       ELSE /\ outcome' = "declined"
                            /\ UNCHANGED raw_cfg
    /\ UNCHANGED <<pc, default_time_pref, cfg>>
    /\ PrefsFrame

(* choice "3", cli.py lines 652-660: change the default time preference *)
ChangeDefaultTimePref ==
    /\ op = "preferences"
    /\ pc = "idle"
    /\ \E pref \in {"morning", "afternoon", "none"} :
         default_time_pref' = IF pref = "none" THEN None ELSE pref
    /\ outcome' = "pref_set"
    /\ new_slot' = None
    /\ UNCHANGED <<pc, raw_cfg, cfg>>
    /\ PrefsFrame

NextPrefs ==
    AddBlockedSlot \/ AskStart \/ AskEnd \/ RemoveBlockedSlot \/ ChangeDefaultTimePref

SpecPrefs == InitPrefs /\ [][NextPrefs]_vars

-----------------------------------------------------------------------------
(* The Slot Model on strings                                               *)
(*                                                                         *)
(* time_to_slot takes the string "HH:MM" and slot_to_time gives one back;  *)
(* a string is the sequence of its characters, as at the preferences menu. *)

(* time_str.split(":") *)
RECURSIVE split(_)
split(str) ==
    LET colons == {i \in 1..Len(str) : str[i] = Colon}
    IN  IF colons = {} THEN <<str>>
        ELSE LET i == CHOOSE k \in colons : \A j \in colons : k <= j
             IN  <<SubSeq(str, 1, i - 1)>> \o split(SubSeq(str, i + 1, Len(str)))

(* int(s) of a string of digits *)
RECURSIVE int(_)
int(s) ==
    IF s = <<>> THEN 0
    ELSE int(SubSeq(s, 1, Len(s) - 1)) * 10 + s[Len(s)]

(* f"{n:02d}" of a number 0..99 *)
Format02d(n) == <<n \div 10, n % 10>>

(* asp_model.py lines 23-25: h, m = map(int, time_str.split(":")) raises    *)
(* ValueError on any other number of parts and on an empty part             *)
TimeToSlot(time_str) ==
    LET parts == split(time_str)
    IN  IF Len(parts) # 2 \/ parts[1] = <<>> \/ parts[2] = <<>>
          THEN [raised |-> "ValueError", slot |-> NoSlot]
          ELSE [raised |-> None,
                slot |-> time_to_slot(T(int(parts[1]), int(parts[2])))]

(* asp_model.py lines 27-30 *)
SlotToTime(slot) ==
    LET t == slot_to_time(slot)
    IN  Format02d(t.h) \o <<Colon>> \o Format02d(t.m)

HourInputs == 4..24

MinuteInputs == {0, 15, 29, 30, 59, 75}

TimeStrings ==
    {Str2(hh, mm) : hh \in HourInputs, mm \in MinuteInputs}
      \cup {Str1(6, 0), Str1(9, 30), <<0, 6, 0, 0>>, <<Colon>>, <<>>,
            <<0, 6, Colon, 0, 0, Colon, 0, 0>>}

SlotInputs == 0..total_slots

InitSlots ==
    /\ InitCommon
    /\ sys_today = today
    /\ default_time_pref = None
    /\ events = <<>>
    /\ cmds = <<>>
    /\ op = "init"
    /\ text \in TimeStrings
    /\ nl = None
    /\ parsed = None
    /\ NoPrefs
    /\ NoStore
    /\ NoLoop

(* model.time_to_slot(time_str) *)
TimeToSlotCall ==
    /\ op = "init"
    /\ op' = "time_to_slot"
    /\ parsed' = TimeToSlot(text)
    /\ ParseFrame

(* model.slot_to_time(slot) *)
SlotToTimeCall ==
    /\ op = "init"
    /\ op' = "slot_to_time"
    /\ \E slot \in SlotInputs :
         parsed' = [slot |-> slot, time |-> SlotToTime(slot)]
    /\ ParseFrame

NextSlots == TimeToSlotCall \/ SlotToTimeCall

SpecSlots == InitSlots /\ [][NextSlots]_vars

-----------------------------------------------------------------------------
(* The Event Store client: GoogleCalendar, google_cal.py lines 70-238       *)
(*                                                                         *)
(* A call sends its request, refreshes the access token when the reply is  *)
(* 401 and a refresh token is held, sends the request again and raises on  *)
(* the reply it is left with.  The replies are the server's choice.        *)

SessionExpired == "Google session expired. Run 'login' to reconnect."

(* the replies of the calendar API and of the token endpoint *)
Statuses == {"200", "401", "500"}

RefreshReplies == {"200", "400", "ConnectError"}

Exchange(req, status) == [req |-> req, status |-> status]

(* google_cal.py lines 83-112 *)
_refresh_if_needed(resp, refresh_token, rr) ==
    IF resp # "401" \/ refresh_token = ""
      THEN [refreshed |-> FALSE, raised |-> None, log |-> <<>>]
    ELSE IF rr = "ConnectError"
      THEN [refreshed |-> FALSE, raised |-> "ConnectError",
            log |-> <<Exchange("refresh", rr)>>]
    ELSE IF rr # "200"
      THEN [refreshed |-> FALSE, raised |-> SessionExpired,
            log |-> <<Exchange("refresh", rr)>>]
    ELSE [refreshed |-> TRUE, raised |-> None, log |-> <<Exchange("refresh", rr)>>]

(* resp.raise_for_status() *)
raise_for_status(resp) == IF resp = "200" THEN None ELSE "HTTPStatusError"

(* google_cal.py lines 134-138, 186-190: resp = await client.get(...);      *)
(* if await self._refresh_if_needed(resp): resp = await client.get(...);    *)
(* resp.raise_for_status()                                                 *)
Send(req, client, r1, rr, r2) ==
    LET ref == _refresh_if_needed(r1, client.refresh_token, rr)
        first == <<Exchange(req, r1)>>
    IN  IF ref.raised # None
          THEN [log |-> first \o ref.log, raised |-> ref.raised, client |-> client]
        ELSE IF ref.refreshed
          THEN [log |-> first \o ref.log \o <<Exchange(req, r2)>>,
                raised |-> raise_for_status(r2),
                client |-> [client EXCEPT !.access_token = @ + 1]]
        ELSE [log |-> first, raised |-> raise_for_status(r1), client |-> client]

MaxCalls == 2

StoreFrame ==
    UNCHANGED <<today, sys_today, blocked_slots, default_time_pref, op, request,
                solutions, fs_args, free_slots, cmds, ci, pending_events, solved,
                failed, auto, check_vars, session_vars, store_calls, handler, pc,
                all_slots, slot_idx, created, deleted, choice, answer, exec_vars, text,
                nl, parsed, raw_cfg, new_slot, cfg, loop>>

(* how a call ends *)
Ends(x) ==
    /\ http' = x.log
    /\ gcal' = x.client
    /\ outcome' = IF x.raised = None THEN "ok" ELSE x.raised
    /\ inputs' = inputs + 1
    /\ StoreFrame

InitStore ==
    /\ InitCommon
    /\ sys_today = today
    /\ default_time_pref = None
    /\ events \in {WithIds(evs) : evs \in EventLists(StoreOptions, MaxEvents)}
    /\ cmds = <<>>
    /\ op = "store"
    /\ text = <<>>
    /\ nl = None
    /\ parsed = None
    /\ NoPrefs
    /\ gcal \in [access_token : {0}, refresh_token : {"", "refresh"}]
    /\ http = <<>>
    /\ NoLoop

(* google_cal.py lines 114-143 *)
ListEventsCall ==
    /\ op = "store" /\ inputs < MaxCalls
    /\ \E r1 \in Statuses, rr \in RefreshReplies, r2 \in Statuses :
         Ends(Send("GET", gcal, r1, rr, r2))
    /\ UNCHANGED <<events, next_id>>

(* google_cal.py lines 165-196 *)
CreateEventCall ==
    /\ op = "store" /\ inputs < MaxCalls
    /\ \E r1 \in Statuses, rr \in RefreshReplies, r2 \in Statuses :
         LET x == Send("POST", gcal, r1, rr, r2)
         IN  /\ Ends(x)
             /\ IF x.raised = None
                  THEN /\ events' = create_event(EventData(next_id, "lunch", 3, T(12, 0), 60))
                       /\ next_id' = next_id + 1
                  ELSE UNCHANGED <<events, next_id>>

(* google_cal.py lines 198-229: the event is read, changed and written back *)
UpdateEventCall ==
    /\ op = "store" /\ inputs < MaxCalls
    /\ \E i \in 1..Len(events) :
       \E r1 \in Statuses, rr \in RefreshReplies, r2 \in Statuses :
       \E p1 \in Statuses, pr \in RefreshReplies, p2 \in Statuses :
         LET x == Send("GET", gcal, r1, rr, r2)
             y == Send("PUT", x.client, p1, pr, p2)
         IN  IF x.raised # None
               THEN Ends(x) /\ UNCHANGED events
               ELSE /\ Ends([y EXCEPT !.log = x.log \o @])
                    /\ IF y.raised = None
                         THEN events' = update_event(events[i],
                                [time |-> T(11, 0), date |-> NoDate, duration |-> 0])
                         ELSE UNCHANGED events
    /\ UNCHANGED next_id

(* google_cal.py lines 231-238 *)
DeleteEventCall ==
    /\ op = "store" /\ inputs < MaxCalls
    /\ \E i \in 1..Len(events) :
       \E r1 \in Statuses, rr \in RefreshReplies, r2 \in Statuses :
         LET x == Send("DELETE", gcal, r1, rr, r2)
         IN  /\ Ends(x)
             /\ IF x.raised = None
                  THEN events' = delete_event(events[i].id)
                  ELSE UNCHANGED events
    /\ UNCHANGED next_id

NextStore == ListEventsCall \/ CreateEventCall \/ UpdateEventCall \/ DeleteEventCall

SpecStore == InitStore /\ [][NextStore]_vars

-----------------------------------------------------------------------------
(* The interactive loop: async_main and handle_input, cli.py lines 907-1098 *)
(*                                                                         *)
(* loop holds the locals gcal_ok and ollama_ok of async_main, whether the  *)
(* tokens file exists, _ollama_status of ollama.py, where the loop stands, *)
(* and what handling the last input printed, called and returned.          *)

(* user_input.strip().lower() of the inputs of the model *)
Normal ==
    ("setup" :> "setup") @@ (" Setup " :> "setup")
      @@ ("enable ollama" :> "enable ollama") @@ ("SETUP OLLAMA" :> "setup ollama")
      @@ ("quit" :> "quit") @@ ("Exit" :> "exit") @@ (" q" :> "q")
      @@ ("quit now" :> "quit now") @@ ("" :> "") @@ ("   " :> "")
      @@ ("login" :> "login") @@ ("logout" :> "logout") @@ ("help" :> "help")
      @@ ("settings" :> "settings") @@ ("list" :> "list")

UserInputs == DOMAIN Normal

(* cli.py line 940 *)
SetupWords == {"setup", "enable ollama", "setup ollama"}

(* cli.py line 912 *)
QuitWords == {"quit", "exit", "q"}

(* how a handler that talks to the user and to the services may end *)
HandlerEnds == {"returned", "Exception", "KeyboardInterrupt"}

(* ollama.py lines 31-41 with the cache _ollama_status *)
CachedAvailable(status, probe) ==
    IF status # "unset" THEN [result |-> IF status = "up" THEN "yes" ELSE "no",
                              status |-> status]
    ELSE [result |-> ollama_available(probe),
          status |-> CASE ollama_available(probe) = "yes" -> "up"
                       [] ollama_available(probe) = "no" -> "down"
                       [] OTHER -> "unset"]

(* what handling an input has done so far: nothing *)
Fresh(l) ==
    [l EXCEPT !.printed = <<>>, !.setup_calls = 0, !.setup_result = None,
              !.returned = None]

(* reset_status() is called whatever setup() returned *)
RunSetup_Mutant(l, ok) ==
    [l EXCEPT !.setup_calls = @ + 1,
              !.setup_result = IF ok THEN "True" ELSE "False",
              !.ollama_status = "unset",
              !.printed = Append(@, IF ok THEN "success" ELSE "error"),
              !.returned = "True"]

(* cli.py lines 944-950 *)
RunSetup(l, ok) ==
    [l EXCEPT !.setup_calls = @ + 1,
              !.setup_result = IF ok THEN "True" ELSE "False",
              !.ollama_status = IF ok THEN "unset" ELSE @,
              !.printed = Append(@, IF ok THEN "success" ELSE "error"),
              !.returned = "True"]

LoopFrame ==
    UNCHANGED <<today, sys_today, events, blocked_slots, default_time_pref, op,
                request, solutions, fs_args, free_slots, cmds, ci, pending_events,
                solved, failed, auto, check_vars, session_vars, next_id, store_calls,
                handler, outcome, pc, all_slots, slot_idx, created, deleted,
                choice, answer, exec_vars, nl, parsed, raw_cfg, new_slot, gcal, http>>

(* the state when the loop is entered, cli.py lines 1025-1072 *)
InitLoop ==
    /\ InitCommon
    /\ blocked_slots = <<>>
    /\ sys_today = today
    /\ default_time_pref = None
    /\ events = <<>>
    /\ cmds = <<>>
    /\ op = "loop"
    /\ text = ""
    /\ nl = None
    /\ parsed = None
    /\ NoPrefs
    /\ NoStore
    /\ cfg \in [ollama_setup_declined : BOOLEAN, ollama_enabled : BOOLEAN]
    /\ \E g \in BOOLEAN, o \in BOOLEAN :
         loop = [at |-> "prompt", gcal_ok |-> g, tokens |-> g, ollama_ok |-> o,
                 ollama_status |-> IF o THEN "up" ELSE "down", printed |-> <<>>,
                 setup_calls |-> 0, setup_result |-> None, returned |-> None,
                 ended |-> None]

(* cli.py lines 1074-1079: Prompt.ask, or EOF or an interrupt at the prompt *)
PromptAsk ==
    /\ op = "loop" /\ loop.at = "prompt"
    /\ \/ /\ inputs < MaxInputs
          /\ \E user_input \in UserInputs :
               /\ text' = user_input
               /\ loop' = [Fresh(loop) EXCEPT !.at = "handle"]
          /\ inputs' = inputs + 1
       \/ /\ \E e \in {"EOFError", "KeyboardInterrupt"} :
               loop' = [Fresh(loop) EXCEPT !.at = "ended", !.ended = e,
                                           !.printed = <<"Bye!">>]
          /\ UNCHANGED <<text, inputs>>
    /\ UNCHANGED cfg
    /\ LoopFrame

(* cli.py lines 1081-1086: what became of await handle_input(...) *)
After(l) ==
    CASE l.returned = "False" ->
           [l EXCEPT !.at = "ended", !.ended = "quit", !.printed = Append(@, "Bye!")]
      [] l.returned = "Exception" ->
           [l EXCEPT !.at = "tail", !.printed = Append(@, "error")]
      [] l.returned = "KeyboardInterrupt" ->
           [l EXCEPT !.at = "ended", !.ended = "KeyboardInterrupt"]
      [] OTHER -> [l EXCEPT !.at = "tail"]

(* handle_input, cli.py lines 907-1000 *)
HandleInput ==
    /\ op = "loop" /\ loop.at = "handle"
    /\ LET t == Normal[text]
       IN  IF t = ""
             THEN loop' = After([loop EXCEPT !.returned = "True"]) /\ UNCHANGED cfg
           ELSE IF t \in QuitWords
             THEN loop' = After([loop EXCEPT !.returned = "False"]) /\ UNCHANGED cfg
           ELSE IF t = "login"
             THEN /\ \E ok \in BOOLEAN :
                       loop' = After([loop EXCEPT
                                 !.tokens = IF ok THEN TRUE ELSE @,
                                 !.printed = <<IF ok THEN "success" ELSE "error">>,
                                 !.returned = "True"])
                  /\ UNCHANGED cfg
           ELSE IF t = "logout"
             THEN /\ loop' = After([loop EXCEPT !.tokens = FALSE,
                                                !.printed = <<"success">>,
                                                !.returned = "True"])
                  /\ UNCHANGED cfg
           ELSE IF t = "help"
             THEN loop' = After([loop EXCEPT !.returned = "True"]) /\ UNCHANGED cfg
           ELSE IF t = "settings"
             THEN /\ \E r \in HandlerEnds :
                       loop' = After([loop EXCEPT
                                 !.returned = IF r = "returned" THEN "True" ELSE r])
                  /\ UNCHANGED cfg
           ELSE IF t \in SetupWords
             THEN \E ok \in BOOLEAN :
                    /\ cfg' = [ollama_setup_declined |-> FALSE,
                               ollama_enabled |-> cfg.ollama_enabled \/ ok]
                    /\ loop' = After(RunSetup(loop, ok))
           ELSE IF ~loop.gcal_ok
             THEN /\ loop' = After([loop EXCEPT !.printed = <<"error">>,
                                                !.returned = "True"])
                  /\ UNCHANGED cfg
           ELSE /\ \E r \in HandlerEnds :
                     loop' = After([loop EXCEPT
                               !.returned = IF r = "returned" THEN "True" ELSE r])
                /\ UNCHANGED cfg
    /\ UNCHANGED <<text, inputs>>
    /\ LoopFrame

(* cli.py lines 1088-1098: gcal is reconnected after a login and Ollama is  *)
(* looked for again; neither is inside a try that catches the probe's error *)
LoopTail ==
    /\ op = "loop" /\ loop.at = "tail"
    /\ \E probe \in Probes :
         LET g == loop.gcal_ok \/ loop.tokens
             a == CachedAvailable(loop.ollama_status, probe)
         IN  IF loop.ollama_ok
               THEN loop' = [loop EXCEPT !.at = "prompt", !.gcal_ok = g]
             ELSE IF a.result = "raised"
               THEN loop' = [loop EXCEPT !.at = "ended", !.gcal_ok = g,
                                         !.ended = probe]
             ELSE loop' = [loop EXCEPT !.at = "prompt", !.gcal_ok = g,
                                       !.ollama_ok = a.result = "yes",
                                       !.ollama_status = a.status]
    /\ UNCHANGED <<text, inputs, cfg>>
    /\ LoopFrame

NextLoop == PromptAsk \/ HandleInput \/ LoopTail

SpecLoop == InitLoop /\ [][NextLoop]_vars

-----------------------------------------------------------------------------
(* Properties *)

Returned == UNION {SeqRange(solutions[i]) : i \in 1..Len(solutions)}

MinuteOverlap(s1, e1, s2, e2) == s1 < e2 /\ s2 < e1

ActiveWindow(b) == b.until = NoDate \/ b.until >= today

(* C1: every slot find_available_slots returns is conflict-free: the       *)
(* interval [time, time+duration) overlaps no event of that date (whatever *)
(* the event's start minute) and no active blocked window of that weekday. *)
C1_ConflictFree ==
    op = "find_available_slots" =>
        \A s \in Returned :
            /\ \A k \in 1..Len(events) :
                 events[k].date = s.date =>
                    ~MinuteOverlap(Minutes(s.time), Minutes(s.time) + s.duration,
                                   Minutes(events[k].time),
                                   Minutes(events[k].time) + events[k].duration)
            /\ \A k \in 1..Len(blocked_slots) :
                 (ActiveWindow(blocked_slots[k])
                    /\ date_to_weekday(s.date) \in blocked_slots[k].days) =>
                    ~MinuteOverlap(Minutes(s.time), Minutes(s.time) + s.duration,
                                   Minutes(blocked_slots[k].start),
                                   Minutes(blocked_slots[k].end))

SolvedChain == [k \in 1..Len(solved) |-> cmds[solved[k] + 1]]

(* C2: after _presolve_timeless has pre-solved a chain,                    *)
(* _find_chain_conflicts over the commands it solved is empty.             *)
C2_ChainSelfConsistent ==
    op = "presolved" => _find_chain_conflicts(SolvedChain) = {}

(* Two untimed 60-minute commands on one empty date were both solved. *)
C2_Witness ==
    /\ op = "presolved"
    /\ Len(cmds) = 2
    /\ solved = <<0, 1>>
    /\ list_events(today) = <<>>
    /\ cmds[1].dates = cmds[2].dates
    /\ DurationOr(cmds[1]) = 60 /\ DurationOr(cmds[2]) = 60
    /\ cmds[1].time # cmds[2].time

SlotOverlap(c1, c2) ==
    /\ time_to_slot(c1.time) < time_to_slot(c2.time) + duration_to_slots(DurationOr(c2))
    /\ time_to_slot(c2.time) < time_to_slot(c1.time) + duration_to_slots(DurationOr(c1))

(* C3: the time the pre-solver writes into a command never overlaps an     *)
(* earlier SCHEDULE command of the chain on the same date, whether the     *)
(* earlier time was supplied by the user or by the solver.                 *)
C3_ObservesEarlier ==
    \A k \in 1..Len(solved) :
        \A j \in 1..solved[k] :
            (/\ cmds[j].intent = "SCHEDULE"
             /\ cmds[j].time # NoTime
             /\ cmds[j].dates # <<>>
             /\ cmds[j].dates[1] = cmds[solved[k] + 1].dates[1])
            => ~SlotOverlap(cmds[j], cmds[solved[k] + 1])

(* The slots of a returned interval, from its wall-clock start and end. *)
ClockSlot(t) == (Minutes(t) - 360) \div 30
IntervalSlots(iv) == ClockSlot(iv.start)..(ClockSlot(iv.end) - 1)
DaySlots == 0..31

(* The busy slots of the last find_free_slots call. *)
FsBusy == busy_slots(events, blocked_slots, fs_args.date, today, sys_today)

FsOrdered(busy) ==
    /\ \A i \in 1..Len(free_slots), j \in 1..Len(free_slots) :
         i < j => /\ ClockSlot(free_slots[i].start) < ClockSlot(free_slots[j].start)
                  /\ ClockSlot(free_slots[i].end) <= ClockSlot(free_slots[j].start)
    /\ \A i \in 1..Len(free_slots) :
         /\ IntervalSlots(free_slots[i]) # {}
         /\ IntervalSlots(free_slots[i]) \cap busy = {}

FsCovered == UNION {IntervalSlots(free_slots[i]) : i \in 1..Len(free_slots)}

(* the slots of the maximal runs of free slots shorter than min_duration *)
ShortRunSlots(busy) ==
    UNION {ab[1]..(ab[2] - 1) : ab \in
        {ab \in DaySlots \X (1..32) :
            /\ ab[1] < ab[2]
            /\ (ab[2] - ab[1]) * 30 < fs_args.min_duration
            /\ (ab[1] = 0 \/ (ab[1] - 1) \in busy)
            /\ (ab[2] = 32 \/ ab[2] \in busy)
            /\ \A x \in ab[1]..(ab[2] - 1) : x \notin busy}}

(* C4 as stated: the intervals find_free_slots returns are strictly        *)
(* increasing, pairwise non-overlapping, contain no busy slot, and their   *)
(* union with the busy slots is the whole day [0, S).                      *)
C4_Original ==
    op = "find_free_slots" =>
        LET busy == FsBusy
        IN  /\ FsOrdered(busy)
            /\ FsCovered \cup (busy \cap DaySlots) = DaySlots

(* C4 amended: the intervals are strictly increasing, pairwise             *)
(* non-overlapping and contain no busy slot; every slot of the day is in a *)
(* returned interval, is busy, or lies in a maximal free run shorter than  *)
(* min_duration, so the union with the busy slots is the whole day when    *)
(* min_duration <= 30.                                                     *)
C4_FreeIntervalsPartition ==
    op = "find_free_slots" =>
        LET busy == FsBusy
            short == ShortRunSlots(busy)
            covered == FsCovered
        IN  /\ FsOrdered(busy)
            /\ covered \cup (busy \cap DaySlots) \cup short = DaySlots
            /\ covered \cap short = {}
            /\ fs_args.min_duration <= 30 =>
                 covered \cup (busy \cap DaySlots) = DaySlots

(* Two intervals were returned and a shorter free run was left out. *)
C4_Witness ==
    /\ op = "find_free_slots"
    /\ Len(free_slots) >= 2
    /\ \E s \in DaySlots : s \notin FsCovered /\ s \notin FsBusy

(* The busy slots of a date, from the inputs: the slots of the events of   *)
(* that date and of the blocked windows the call reads for its weekday.    *)
HalfHourSlot(t) == 2 * (t.h - 6) + (IF t.m >= 30 THEN 1 ELSE 0)
CeilSlots(mins) == IF mins % 30 = 0 THEN mins \div 30 ELSE (mins \div 30) + 1
WindowRead(b) == b.until = NoDate \/ (b.until >= today /\ b.until >= sys_today)
BusyWith(date, Reads(_)) ==
    {s \in DaySlots :
        \/ \E k \in 1..Len(events) :
             /\ events[k].date = date
             /\ HalfHourSlot(events[k].time) <= s
             /\ s < HalfHourSlot(events[k].time) + CeilSlots(events[k].duration)
        \/ \E k \in 1..Len(blocked_slots) :
             /\ Reads(blocked_slots[k])
             /\ WeekdayNames[(date % 7) + 1] \in blocked_slots[k].days
             /\ HalfHourSlot(blocked_slots[k].start) <= s
             /\ s < HalfHourSlot(blocked_slots[k].end)}
DateBusy(date) == BusyWith(date, WindowRead)

MaximalRuns(busy, min_duration) ==
    {ab \in DaySlots \X (1..32) :
        /\ ab[1] < ab[2]
        /\ \A x \in ab[1]..(ab[2] - 1) : x \notin busy
        /\ (ab[1] = 0 \/ (ab[1] - 1) \in busy)
        /\ (ab[2] = 32 \/ ab[2] \in busy)
        /\ (ab[2] - ab[1]) * 30 >= min_duration}

Clock(s) == [h |-> 6 + (s \div 2), m |-> 30 * (s % 2)]

(* C5: find_free_slots emits exactly the maximal runs of free slots of the *)
(* date that last at least min_duration, in order; end is the slot just    *)
(* past the run, duration_mins is 30 x slots, events of other dates do not *)
(* count, and an empty day gives the one interval 06:00-22:00 of 960 min.  *)
C5_ExactRuns ==
    op = "find_free_slots" =>
        LET runs == MaximalRuns(DateBusy(fs_args.date), fs_args.min_duration)
        IN  /\ {free_slots[i] : i \in 1..Len(free_slots)} =
                 {[start |-> Clock(ab[1]), end |-> Clock(ab[2]),
                   duration_mins |-> 30 * (ab[2] - ab[1]),
                   date |-> fs_args.date] : ab \in runs}
            /\ Len(free_slots) = Cardinality(runs)
            /\ \A i \in 1..(Len(free_slots) - 1) :
                 Minutes(free_slots[i].end) < Minutes(free_slots[i + 1].start)
            /\ DateBusy(fs_args.date) = {} =>
                 free_slots = <<[start |-> T(6, 0), end |-> T(22, 0),
                                 duration_mins |-> 960, date |-> fs_args.date]>>

(* An event of another date is in the list, one event of the date splits   *)
(* the day in two intervals, the second ending at 22:00.                   *)
C5_Witness ==
    /\ op = "find_free_slots"
    /\ \E k \in 1..Len(events) : events[k].date # fs_args.date
    /\ \E k \in 1..Len(events) : events[k].date = fs_args.date
    /\ Len(free_slots) = 2
    /\ free_slots[2].end = T(22, 0)

(* The start slots at which an activity of the request fits on a date: the *)
(* whole duration is free of busy slots and ends by the end of the day.    *)
FeasibleStarts(date) ==
    LET busy == BusyWith(date, ActiveWindow)
        n == CeilSlots(request.duration)
    IN  {t \in DaySlots : t + n <= 32 /\ \A x \in t..(t + n - 1) : x \notin busy}

MinOf(S) == CHOOSE x \in S : \A y \in S : x <= y

NoBias ==
    ~request.prefer_morning /\ ~request.prefer_afternoon /\ ~request.prefer_evening

(* C6: with no time bias and count = 1 the first solution returned is the  *)
(* earliest feasible start of the date (06:00 on an empty day); inside     *)
(* each solution the slots are ordered by (date, slot).                    *)
C6_EarliestFirst ==
    op = "find_available_slots" =>
        /\ (/\ NoBias /\ request.count = 1 /\ request.date # NoDate
            /\ ~request.working_hours_only
            /\ solutions # <<>>) =>
              /\ solutions[1][1].slot = MinOf(FeasibleStarts(request.date))
              /\ solutions[1][1].time = Clock(MinOf(FeasibleStarts(request.date)))
        /\ \A i \in 1..Len(solutions) :
             \A j \in 1..(Len(solutions[i]) - 1) :
                \/ solutions[i][j].date < solutions[i][j + 1].date
                \/ /\ solutions[i][j].date = solutions[i][j + 1].date
                   /\ solutions[i][j].slot <= solutions[i][j + 1].slot

(* C7: when morning is preferred and a feasible morning start exists, the  *)
(* first-ranked solution has all its slots in [0, 12).                     *)
C7_MorningFirst ==
    (/\ op = "find_available_slots"
     /\ request.prefer_morning /\ request.count = 1 /\ request.date # NoDate
     /\ ~request.working_hours_only
     /\ \E t \in FeasibleStarts(request.date) : t < 12
     /\ solutions # <<>>) =>
        \A j \in 1..Len(solutions[1]) :
            /\ solutions[1][j].slot \in 0..11
            /\ Minutes(solutions[1][j].time) < 12 * 60

(* C8: every returned slot respects the day boundary: its start is a slot  *)
(* of the day and start + duration_slots <= S, so it ends by 22:00.        *)
C8_DayBoundary ==
    op = "find_available_slots" =>
        \A s \in Returned :
            /\ s.slot \in DaySlots
            /\ s.slot + CeilSlots(s.duration) <= 32
            /\ Minutes(s.time) + s.duration <= 22 * 60

(* A returned activity ends exactly at the end of the day. *)
C8_Witness ==
    /\ op = "find_available_slots"
    /\ \E s \in Returned : s.slot + CeilSlots(s.duration) = 32

(* C9: with working_hours_only every slot an activity occupies, the start  *)
(* and each following slot of its duration, is in [6, 24].                 *)
C9_WorkingHours ==
    (op = "find_available_slots" /\ request.working_hours_only) =>
        \A s \in Returned :
            \A x \in s.slot..(s.slot + CeilSlots(s.duration) - 1) : x \in 6..24

AllowedDays ==
    IF request.date # NoDate
      THEN {WeekdayNames[(request.date % 7) + 1]}
      ELSE request.days

(* C10: every solution has exactly request.count slots; with count > 1     *)
(* they are on pairwise distinct allowed days, and on no weekend day when  *)
(* avoid_weekends is set.                                                  *)
C10_CountAndDays ==
    op = "find_available_slots" =>
        \A i \in 1..Len(solutions) :
            /\ Len(solutions[i]) = request.count
            /\ \A j \in 1..Len(solutions[i]) :
                 /\ solutions[i][j].day \in AllowedDays
                 /\ request.avoid_weekends =>
                      solutions[i][j].day \notin {"saturday", "sunday"}
            /\ request.count > 1 =>
                 \A j \in 1..Len(solutions[i]), k \in 1..Len(solutions[i]) :
                    j # k => /\ solutions[i][j].day # solutions[i][k].day
                             /\ solutions[i][j].date # solutions[i][k].date

(* A two-session request that avoids weekends was answered. *)
C10_Witness ==
    /\ op = "find_available_slots"
    /\ request.count = 2
    /\ request.avoid_weekends
    /\ solutions # <<>>

(* C11: find_available_slots returns at most max_solutions solutions, and  *)
(* the solutions it returns are pairwise distinct.                         *)
C11_AtMostKDistinct ==
    op = "find_available_slots" =>
        /\ Len(solutions) <= request.max_solutions
        /\ \A i \in 1..Len(solutions), j \in 1..Len(solutions) :
             i # j => solutions[i] # solutions[j]

(* the windows the claim counts as active that cover the weekday of a date *)
ActiveOn(date) ==
    {b \in SeqRange(blocked_slots) :
        ActiveWindow(b) /\ WeekdayNames[(date % 7) + 1] \in b.days}

(* C13: a blocked window whose until date is before today contributes no   *)
(* busy slot to find_available_slots, find_free_slots or                   *)
(* _check_preference_block; a window with no until, or with until today or *)
(* later, is busy on each of its weekdays.                                 *)
C13_ExpiredWindows ==
    /\ op = "find_available_slots" =>
          /\ \A s \in Returned : s.slot \in FeasibleStarts(s.date)
          /\ (/\ request.date # NoDate /\ request.count = 1
              /\ outcome = "ok"
              /\ \E t \in FeasibleStarts(request.date) :
                    request.working_hours_only => t \in 6..24)
               => solutions # <<>>
    /\ op = "find_free_slots" =>
          {free_slots[i] : i \in 1..Len(free_slots)} =
             {[start |-> Clock(ab[1]), end |-> Clock(ab[2]),
               duration_mins |-> 30 * (ab[2] - ab[1]), date |-> fs_args.date] :
                 ab \in MaximalRuns(BusyWith(fs_args.date, ActiveWindow),
                                    fs_args.min_duration)}
    /\ op = "check_preference_block" =>
          {pref_blocks[i] : i \in 1..Len(pref_blocks)} =
             {b \in ActiveOn(check_args.date) :
                 /\ HalfHourSlot(check_args.time) < HalfHourSlot(b.end)
                 /\ HalfHourSlot(b.start)
                      < HalfHourSlot(check_args.time) + CeilSlots(check_args.duration)}

(* the slot interval of a start time and a duration *)
SlotStart(x) == HalfHourSlot(x.time)
SlotEnd(x) == HalfHourSlot(x.time) + CeilSlots(x.duration)

(* C14: _check_conflict returns exactly the events of the same date whose  *)
(* slot interval [start, start + ceil(duration/30)) overlaps the proposed  *)
(* one (a.start < b.end and b.start < a.end); events of other dates and    *)
(* intervals that only touch are not reported.                             *)
C14_CheckConflictExact ==
    op = "check_conflict" =>
        /\ {conflicts[i] : i \in 1..Len(conflicts)} =
              {e \in SeqRange(events) :
                  /\ e.date = check_args.date
                  /\ SlotStart(check_args) < SlotEnd(e)
                  /\ SlotStart(e) < SlotEnd(check_args)}
        /\ \A i \in 1..Len(conflicts) :
              /\ conflicts[i].date = check_args.date
              /\ SlotEnd(conflicts[i]) # SlotStart(check_args)
              /\ SlotStart(conflicts[i]) # SlotEnd(check_args)
        /\ \A i \in 1..Len(conflicts), j \in 1..Len(conflicts) :
              i # j => conflicts[i] # conflicts[j]

(* One event of the date overlaps the proposed interval and is reported,   *)
(* another ends exactly where the proposed interval starts and is not.     *)
C14_Witness ==
    /\ op = "check_conflict"
    /\ conflicts # <<>>
    /\ \E k \in 1..Len(events) :
         /\ events[k].date = check_args.date
         /\ SlotEnd(events[k]) = SlotStart(check_args)
         /\ events[k] \notin SeqRange(conflicts)

(* a handler was started by this step *)
StartsHandler == inputs' # inputs \/ dispatched' # dispatched

(* the solver call of the handler raised: no create was attempted *)
SolverRaised == outcome = "raised" /\ store_calls = <<"list_events">>

(* C12: find_available_slots fails soft for every input: the empty list    *)
(* when the request is unsatisfiable, a returned error sentinel on a       *)
(* grounding or encoding error, never an exception; handle_schedule treats *)
(* both as "no available slots" and creates no event.                      *)
C12_FailSoft ==
    /\ op = "find_available_slots" =>
          /\ outcome # "raised"
          /\ (request.date # NoDate /\ FeasibleStarts(request.date) = {}) =>
                solutions = <<>>
    /\ (op = "dispatch" /\ handler.name = "handle_schedule") =>
          /\ ~SolverRaised
          /\ outcome = "no_slots" =>
                /\ solutions = <<>>
                /\ created = <<>>
                /\ "create_event" \notin SeqRange(store_calls)
          /\ pc = "suggest" => solutions # <<>>

(* C15: every event the dispatcher creates fits inside one day of the slot *)
(* model, slot_of(time) + ceil(duration/30) <= S; a SCHEDULE whose time    *)
(* would make the event straddle the day boundary creates nothing.         *)
C15_FitsOneDay ==
    /\ \A i \in 1..Len(created) : SlotEnd(created[i]) <= 32
    /\ \A i \in 1..Len(history) : SlotEnd(history[i]) <= 32

(* the proposed interval overlaps an event of the date or an active        *)
(* blocked window of its weekday, in the state before the handler runs     *)
ProposalOverlaps(x) ==
    \/ \E k \in 1..Len(events) :
         /\ events[k].date = x.date
         /\ SlotStart(x) < SlotEnd(events[k])
         /\ SlotStart(events[k]) < SlotEnd(x)
    \/ \E b \in ActiveOn(x.date) :
         /\ SlotStart(x) < HalfHourSlot(b.end)
         /\ HalfHourSlot(b.start) < SlotEnd(x)

(* the proposal of a SCHEDULE command with an explicit time *)
Proposal(cmd) ==
    [date |-> IF cmd.dates # <<>> THEN cmd.dates[1] ELSE today,
     time |-> cmd.time,
     duration |-> IF cmd.duration # 0 THEN cmd.duration ELSE 60]

(* C16: for a SCHEDULE command with an explicit time whose interval        *)
(* overlaps an event or a blocked window, the user is presented the choice *)
(* {find-next-slot, override, cancel}; an event at the conflicting time is *)
(* created only on override, cancel creates nothing, and find-next-slot    *)
(* goes to the solver as if no time was given.                             *)
C16_ConflictChoice ==
    [][ (/\ StartsHandler
         /\ handler'.name = "handle_schedule"
         /\ handler'.cmd.time # NoTime
         /\ ProposalOverlaps(Proposal(handler'.cmd)))
        => /\ choice' \in {"find_next", "override", "cancel"}
           /\ created' # <<>> => choice' = "override"
           /\ choice' = "cancel" => (created' = <<>> /\ events' = events /\ pc' = "idle")
           /\ choice' = "find_next" =>
                /\ created' = <<>>
                /\ request' = ScheduleRequest([handler'.cmd EXCEPT !.time = NoTime],
                                              Proposal(handler'.cmd).date)
       ]_vars

(* C16, amended: the choice is presented when the command is dispatched on *)
(* its own; a command executed as part of a confirmed chain is created at  *)
(* the conflicting time without any choice (the create may still raise).   *)
C16_ConflictChoiceUnlessBatch ==
    [][ (/\ StartsHandler
         /\ handler'.name = "handle_schedule"
         /\ handler'.cmd.time # NoTime
         /\ ProposalOverlaps(Proposal(handler'.cmd)))
        => /\ conflicts' # <<>> \/ pref_blocks' # <<>>
           /\ ~handler'.auto_confirm =>
                /\ choice' \in {"find_next", "override", "cancel"}
                /\ created' # <<>> => choice' = "override"
                /\ choice' = "cancel" =>
                      (created' = <<>> /\ events' = events /\ pc' = "idle")
                /\ choice' = "find_next" =>
                      /\ created' = <<>>
                      /\ request' = ScheduleRequest(
                                       [handler'.cmd EXCEPT !.time = NoTime],
                                       Proposal(handler'.cmd).date)
           /\ handler'.auto_confirm =>
                /\ choice' = None
                /\ outcome' \in {"created", "raised"}
                /\ outcome' = "created" =>
                      /\ created'[1].time = handler'.cmd.time
                      /\ created'[1].date = Proposal(handler'.cmd).date
       ]_vars

(* A single command whose explicit time overlaps was created after the     *)
(* user, presented with the choice, chose override.                        *)
C16_Witness ==
    /\ handler.name = "handle_schedule"
    /\ conflicts # <<>> \/ pref_blocks # <<>>
    /\ outcome = "created"
    /\ created # <<>>
    /\ created[1].time = handler.cmd.time
    /\ ~handler.auto_confirm
    /\ choice = "override"

(* C17: Session Memory changes only after the Event Store mutation has     *)
(* succeeded: when create, update or delete raises, last_title, last_date  *)
(* and the history are unchanged; after a successful create the event is   *)
(* the last element of the history and last_title, last_date are its title *)
(* and date.                                                               *)
C17_MemoryAfterSuccess ==
    [][ /\ outcome' = "raised" => UNCHANGED session_vars
        /\ session_vars' # session_vars =>
              /\ outcome' \in {"created", "deleted", "updated"}
              /\ store_calls'[Len(store_calls')]
                   \in {"create_event", "delete_event", "update_event"}
        /\ (created' # <<>> /\ StartsHandler) \/ (created' # <<>> /\ created = <<>>) =>
              /\ history' = Append(history, created'[1])
              /\ last_title' = created'[1].title
              /\ last_date' = created'[1].date
              /\ \E k \in 1..Len(events') : events'[k] = created'[1]
       ]_vars

(* A create raised after an earlier create had succeeded: the memory still *)
(* holds the earlier event.                                                *)
C17_Witness ==
    /\ outcome = "raised"
    /\ store_calls # <<>>
    /\ store_calls[Len(store_calls)] = "create_event"
    /\ Len(history) = 1
    /\ last_title = history[1].title

(* C18: an anaphoric DELETE or UPDATE issued while Session Memory is empty *)
(* reports "No recent event in memory", makes no Event Store call and      *)
(* leaves Session Memory unchanged.                                        *)
C18_EmptyMemory ==
    [][ (/\ StartsHandler
         /\ handler'.name \in {"handle_delete", "handle_update"}
         /\ handler'.cmd.activity \in {"that", "it", "this"}
         /\ last_title = None)
        => /\ outcome' = "no_recent_event"
           /\ store_calls' = <<>>
           /\ events' = events
           /\ UNCHANGED session_vars
       ]_vars

(* "move it" was answered with "No recent event in memory" although the    *)
(* store holds events.                                                     *)
C18_Witness ==
    /\ handler.name = "handle_update"
    /\ outcome = "no_recent_event"
    /\ last_title = None
    /\ events # <<>>

(* C19: after an event has been created and recorded, a confirmed          *)
(* anaphoric "delete that" deletes exactly the just-created event, the one *)
(* with the id create returned, whatever other events the store holds.     *)
C19_DeletesJustCreated ==
    [][ (/\ StartsHandler
         /\ handler'.name = "handle_delete"
         /\ handler'.cmd.activity \in {"that", "it", "this"}
         /\ outcome = "created" /\ created # <<>>
         /\ outcome' = "deleted")
        => /\ deleted' = created
           /\ \A k \in 1..Len(events') : events'[k].id # created[1].id
           /\ Len(events') = Len(events) - 1
       ]_vars

(* the commands the execution loop has reached *)
Reached == IF op = "aborted" THEN xi + 1 ELSE xi

(* C20: a confirmed chain is executed one command at a time in declaration *)
(* order; exactly the SCHEDULE commands that still have no time are        *)
(* skipped, no event is created for them, and every other command is       *)
(* dispatched once.                                                        *)
C20_ChainOrder ==
    op \in {"exec", "executed", "aborted"} =>
        /\ \A k \in 1..(Len(dispatched) - 1) : dispatched[k] < dispatched[k + 1]
        /\ \A k \in 1..(Len(skipped) - 1) : skipped[k] < skipped[k + 1]
        /\ SeqRange(skipped) =
             {i \in 0..(Reached - 1) :
                 cmds[i + 1].intent = "SCHEDULE" /\ cmds[i + 1].time = NoTime}
        /\ SeqRange(dispatched) = (0..(Reached - 1)) \ SeqRange(skipped)
        /\ op = "executed" => Reached = Len(cmds)
        /\ \A k \in 1..Len(history) :
              \E j \in 1..Len(dispatched) :
                 /\ cmds[dispatched[j] + 1].intent = "SCHEDULE"
                 /\ cmds[dispatched[j] + 1].time = history[k].time
                 /\ cmds[dispatched[j] + 1].dates = <<history[k].date>>
        /\ Len(history) <= Cardinality({j \in 1..Len(dispatched) :
                                          cmds[dispatched[j] + 1].intent = "SCHEDULE"})

(* A chain was executed to its end: its timed SCHEDULE created an event,   *)
(* its SCHEDULE without a time was skipped.                                *)
C20_Witness ==
    /\ op = "executed"
    /\ skipped # <<>>
    /\ dispatched # <<>>
    /\ history # <<>>

(* C21: when a handler raises during the execution of a chain, the events  *)
(* committed by earlier commands of the chain stay committed; on skip the  *)
(* loop continues with the next command in order, on abort no later        *)
(* command is executed.                                                    *)
C21_AbortKeepsCommitted ==
    [][ /\ (op = "exec" /\ dispatched' # dispatched /\ outcome' = "raised") =>
              /\ events' = events
              /\ UNCHANGED session_vars
              /\ choice2' \in {"S", "X"}
              /\ choice2' = "S" => (op' = "exec" /\ xi' = xi + 1)
              /\ choice2' = "X" => op' = "aborted"
        /\ (op = "exec" /\ choice2 = "S" /\ xi < Len(cmds)) =>
              \/ dispatched' = Append(dispatched, xi)
              \/ skipped' = Append(skipped, xi)
        /\ op = "aborted" => UNCHANGED vars
        /\ op' = "aborted" => choice2' = "X"
       ]_vars

(* The first command of the chain created an event, the handler of the     *)
(* second raised and the user cancelled the rest: the event is still in    *)
(* the store.                                                              *)
C21_Witness ==
    /\ op = "aborted"
    /\ choice2 = "X"
    /\ Len(dispatched) = 2
    /\ history # <<>>
    /\ \E k \in 1..Len(events) : events[k] = history[1]

(* the entries of _INTENT_PATTERNS whose regex matches the text *)
MatchingEntries ==
    {k \in 1..Len(_INTENT_PATTERNS) :
        PatternMatches(_INTENT_PATTERNS[k], _fix_typos(text))}

(* C23: when the input matches the regexes of several intents, the Rule    *)
(* Parser chooses the intent with the highest priority number among the    *)
(* matching (intent, regex, priority) entries.                             *)
C23_HighestPriorityWins ==
    (op = "regex_classify" /\ MatchingEntries # {}) =>
        \E k \in MatchingEntries :
            /\ parsed.intent = _INTENT_PATTERNS[k].name
            /\ \A j \in MatchingEntries :
                  _INTENT_PATTERNS[j].priority <= _INTENT_PATTERNS[k].priority

(* the text is a month name followed by a day of that month, with no year  *)
(* and no other date word                                                  *)
MonthDayText ==
    /\ Len(text) >= 2
    /\ text[1].w \in MonthWords
    /\ text[2].w = "#"
    /\ 1 <= text[2].n
    /\ text[2].n <= DaysIn(2026, MonthNum(text[1].w))
    /\ \A i \in 3..Len(text) : text[i] = Wd("gym")

(* C27: a month-day without a year resolves to the current year, rolled    *)
(* forward to the next year whenever the date would be in the past: the    *)
(* resolved date is never earlier than today.                              *)
C27_NeverInThePast ==
    (op = "parse_date_from_query" /\ MonthDayText) =>
        /\ Len(parsed) = 1
        /\ parsed[1].m = MonthNum(text[1].w)
        /\ parsed[1].d = text[2].n
        /\ parsed[1].y \in {OrdYmd(today).y, OrdYmd(today).y + 1}
        /\ ~YmdLess(parsed[1], OrdYmd(today))

(* the positions of "at H" followed by am or pm, of "at HH:MM", and of a   *)
(* bare "at H" in the text                                                 *)
AmPmForms ==
    {i \in 1..(Len(text) - 2) :
        text[i] = Wd("at") /\ text[i + 1].w \in {"#", ":"} /\ text[i + 2].w \in {"am", "pm"}}

ClockForms == {i \in 1..(Len(text) - 1) : text[i] = Wd("at") /\ text[i + 1].w = ":"}

BareForms ==
    {i \in 1..(Len(text) - 1) :
        /\ text[i] = Wd("at")
        /\ text[i + 1].w = "#"
        /\ i + 2 <= Len(text) => text[i + 2].w \notin {"am", "pm", "hours"}}

(* C28: for a bare "at H", H in 1..6 resolves to (H+12):00 and H in 7..12  *)
(* to H:00; an explicit am/pm or HH:MM form in the same text takes         *)
(* precedence over the bare-hour rule.                                     *)
C28_BareHour ==
    op = "_extract_time" =>
        /\ (AmPmForms = {} /\ ClockForms = {} /\ BareForms # {}) =>
              LET H == text[Leftmost(BareForms) + 1].n
              IN  /\ H \in 1..6 => parsed = T(H + 12, 0)
                  /\ H \in 7..12 => parsed = T(H, 0)
        /\ AmPmForms # {} =>
              \E i \in AmPmForms :
                  LET H == text[i + 1].n
                  IN  /\ parsed.h = (IF text[i + 2].w = "pm"
                                       THEN (IF H = 12 THEN 12 ELSE H + 12)
                                       ELSE (IF H = 12 THEN 0 ELSE H))
                      /\ parsed.m = (IF text[i + 1].w = ":" THEN text[i + 1].m ELSE 0)
        /\ (AmPmForms = {} /\ ClockForms # {}) =>
              \E i \in ClockForms : parsed = T(text[i + 1].n, text[i + 1].m)

(* "at 2" was resolved to 14:00 *)
C28_Witness ==
    /\ op = "_extract_time"
    /\ text = <<Wd("at"), Nm(2)>>
    /\ parsed = T(14, 0)

(* the NL parser is reachable and enabled and its call succeeded with a    *)
(* known intent                                                            *)
NLSucceeded ==
    /\ nl.probe = "200"
    /\ nl.ollama_enabled
    /\ nl.reply.kind = "array"
    /\ nl.reply.item.intent \in ValidIntents

(* C22: the pipeline uses the NL parser's result whole when the parser is  *)
(* available, enabled and its call succeeds; on any NL-parser failure      *)
(* (transport error, timeout, JSON decode error, unknown intent string)    *)
(* the result is exactly the Rule Parser's output for the text; the two    *)
(* are never blended and the failure is never raised to the caller.        *)
C22_NeverBlended ==
    op = "classify" =>
        /\ parsed.kind = "returned"
        /\ NLSucceeded =>
              /\ parsed.cmd.intent = nl.reply.item.intent
              /\ parsed.cmd.activity = nl.reply.item.activity
              /\ parsed.cmd.time = nl.reply.item.time
              /\ parsed.cmd.duration = nl.reply.item.duration
              /\ parsed.cmd.confidence = 95
        /\ ~NLSucceeded => parsed.cmd = regex_classify(text, today)

(* the time of day of an accepted "H:MM" or "HH:MM", in minutes *)
StrMinutes(str) ==
    IF Len(str) = 4 THEN 60 * str[1] + 10 * str[3] + str[4]
    ELSE 60 * (10 * str[1] + str[2]) + 10 * str[4] + str[5]

(* C30: every blocked window stored through the preferences menu has       *)
(* end > start as times of day, for all accepted H:MM and HH:MM inputs; an *)
(* end that is not after the start is rejected and re-prompted.            *)
C30_EndAfterStart ==
    op = "preferences" =>
        \A k \in 1..Len(raw_cfg) :
            StrMinutes(raw_cfg[k].end) > StrMinutes(raw_cfg[k].start)

(* the number a numeric DELETE names *)
NumberNamed ==
    ("0" :> 0) @@ ("1" :> 1) @@ ("3" :> 3) @@ ("one" :> 1) @@ ("two" :> 2)
      @@ ("three" :> 3)

(* the events of the pre-state a numeric DELETE lists *)
Listed(cmd) ==
    LET date == IF cmd.dates # <<>> THEN cmd.dates[1] ELSE today
    IN  SelectSeq(events, LAMBDA e : e.date = date)

(* the store without its k-th event of the list *)
Without(ev) == SelectSeq(events, LAMBDA e : e # ev)

(* C29: "delete N" deletes nothing and reports an error when the events
   listed for the date are empty or N is outside 1..len; otherwise it
   deletes at most one event, the N-th of the list, and only after the user
   confirmed *)
C29_NumericDelete ==
    [][(StartsHandler /\ handler'.name = "handle_delete"
          /\ handler'.cmd.activity \in DOMAIN NumberNamed)
         => LET cmd == handler'.cmd
                N == NumberNamed[cmd.activity]
                listed == Listed(cmd)
            IN  /\ (listed = <<>> \/ N < 1 \/ N > Len(listed))
                     => outcome' = "error" /\ events' = events /\ deleted' = <<>>
                /\ events' # events
                     => /\ N \in 1..Len(listed)
                        /\ outcome' = "deleted"
                        /\ events' = Without(listed[N])
                        /\ Len(events') = Len(events) - 1
                        /\ deleted' = <<listed[N]>>
                /\ outcome' # "deleted" => events' = events]_vars

C29_Witness ==
    /\ handler.name = "handle_delete"
    /\ handler.cmd.activity = "two"
    /\ outcome = "deleted"
    /\ Len(deleted) = 1
    /\ deleted[1].title = "standup"

(* the strings "HH:MM" at half-hour granularity in [06:00, 22:00) *)
HalfHourTimes ==
    {Str2(hh, mm) : hh \in day_start_hour..(day_end_hour - 1), mm \in {0, 30}}

(* C25: slot round trip: slot_to_time(time_to_slot(t)) = t for every
   "HH:MM" at half-hour granularity in [06:00, 22:00), and
   time_to_slot(slot_to_time(s)) = s for every slot s in [0, S) *)
C25_SlotRoundTrip ==
    /\ (op = "time_to_slot" /\ text \in HalfHourTimes)
         => /\ parsed.raised = None
            /\ SlotToTime(parsed.slot) = text
    /\ (op = "slot_to_time" /\ parsed.slot \in 0..(total_slots - 1))
         => TimeToSlot(parsed.time) = [raised |-> None, slot |-> parsed.slot]

C25_Witness ==
    /\ op = "slot_to_time"
    /\ parsed.slot = 7
    /\ parsed.time = Str2(9, 30)

(* "HH:MM" whose hour is outside [6, 22] or whose minute is outside 0..59 *)
OutOfRange(str) ==
    /\ Len(str) = 5 /\ str[3] = Colon
    /\ \A i \in {1, 2, 4, 5} : str[i] < Colon
    /\ LET hh == str[1] * 10 + str[2]
           mm == str[4] * 10 + str[5]
       IN  hh < day_start_hour \/ hh > day_end_hour \/ mm > 59

(* C26: time_to_slot fails with InvalidTime when the hour is outside [6, 22]
   or the minute is outside 0..59, and returns no negative slot and no slot
   beyond S for such input *)
C26_RejectsOutOfRange ==
    (op = "time_to_slot" /\ OutOfRange(text))
      => /\ parsed.raised = "InvalidTime"
         /\ ~(parsed.raised = None /\ (parsed.slot < 0 \/ parsed.slot > total_slots))

(* the positions of http where a request, not a retry of it, got 401 *)
AuthExpired ==
    {i \in 1..Len(http) :
        /\ http[i].req # "refresh" /\ http[i].status = "401"
        /\ (i = 1 \/ http[i - 1].req # "refresh")}

(* C24: each request of an Event Store call that gets 401 is followed by
   exactly one token refresh and, when the token was refreshed, by exactly
   one retry of the same request; when the refresh is refused or the retry
   gets 401 again, nothing more is sent and the user is told to log in
   again *)
C24_RefreshOnce ==
    (op = "store" /\ gcal.refresh_token # "")
      => \A i \in AuthExpired :
           /\ Len(http) > i
           /\ http[i + 1].req = "refresh"
           /\ http[i + 1].status = "200"
                => /\ Len(http) > i + 1
                   /\ http[i + 2].req = http[i].req
                   /\ http[i + 2].status = "401"
                        => Len(http) = i + 2 /\ outcome = SessionExpired
           /\ http[i + 1].status # "200" => Len(http) = i + 1
           /\ http[i + 1].status = "400" => outcome = SessionExpired

(* C31: "setup", "enable ollama" and "setup ollama", logged in or not, remove
   ollama_setup_declined from the saved config, call setup() once and return
   True; when setup() fails one error is printed and _ollama_status is not
   reset *)
C31_SetupCommand ==
    [][(op = "loop" /\ loop.at = "handle" /\ Normal[text] \in SetupWords)
         => /\ ~cfg'.ollama_setup_declined
            /\ loop'.setup_calls = 1
            /\ loop'.returned = "True"
            /\ loop'.at = "tail"
            /\ loop'.setup_result = "False"
                 => /\ loop'.printed = <<"error">>
                    /\ loop'.ollama_status = loop.ollama_status]_vars

C31_Witness ==
    /\ op = "loop" /\ loop.at = "tail"
    /\ text = "SETUP OLLAMA"
    /\ ~loop.gcal_ok
    /\ loop.setup_result = "False"
    /\ loop.printed = <<"error">>

(* C32: no error aborts the interactive loop: it ends only on EOF or an
   interrupt or on quit, exit or q, and handle_input returns False for
   exactly those three inputs *)
C32_LoopEnds ==
    /\ (op = "loop" /\ loop.ended # None)
         => loop.ended \in {"EOFError", "KeyboardInterrupt", "quit"}
    /\ (op = "loop" /\ loop.returned = "False")
         => Normal[text] \in QuitWords
    /\ (op = "loop" /\ loop.at = "tail")
         => Normal[text] \notin QuitWords

(* the event a partial record of changes makes of an event *)
Merged(ev, changes) ==
    [ev EXCEPT !.time = IF changes.time # NoTime THEN changes.time ELSE @,
               !.date = IF changes.date # NoDate THEN changes.date ELSE @,
               !.duration = IF changes.duration # 0 THEN changes.duration ELSE @]

(* C33: an UPDATE changes the fields its command names and no other: the
   event keeps its duration when only its time or date is changed, a
   duration alone is applied, and a command without changes makes no update
   call *)
C33_PartialUpdate ==
    [][(StartsHandler /\ handler'.name = "handle_update"
          /\ handler'.cmd.activity \notin Anaphora)
         => LET changes == Changes(handler'.cmd)
            IN  /\ outcome' = "updated"
                     => \E i \in 1..Len(events) :
                          /\ Merged(events[i], changes) \in SeqRange(events')
                          /\ \A j \in 1..Len(events) :
                               j # i => events[j] \in SeqRange(events')
                          /\ Len(events') = Len(events)
                /\ (changes.time = NoTime /\ changes.date = NoDate
                      /\ changes.duration = 0)
                     => "update_event" \notin SeqRange(store_calls')]_vars

(* C34: each operation of the preferences menu changes only its target:
   adding appends one entry, removing removes exactly the picked entry, and
   changing the default time preference changes that field only; the other
   blocked windows, expired ones included, and the other config keys stay *)
C34_OnlyTheTarget ==
    [][op = "preferences"
         => /\ cfg' = cfg
            /\ outcome' = "added"
                 => /\ Len(raw_cfg') = Len(raw_cfg) + 1
                    /\ SubSeq(raw_cfg', 1, Len(raw_cfg)) = raw_cfg
                    /\ default_time_pref' = default_time_pref
            /\ outcome' = "removed"
                 => /\ \E k \in 1..Len(raw_cfg) :
                         /\ raw_cfg[k] = ShownSlots(raw_cfg)[new_slot'.pick]
                         /\ raw_cfg' = SubSeq(raw_cfg, 1, k - 1)
                                         \o SubSeq(raw_cfg, k + 1, Len(raw_cfg))
                    /\ default_time_pref' = default_time_pref
            /\ outcome' = "pref_set" => raw_cfg' = raw_cfg
            /\ outcome' \notin {"added", "removed", "pref_set"}
                 => raw_cfg' = raw_cfg /\ default_time_pref' = default_time_pref]_vars


(* C35: the solver and the static checks agree: for the same events,       *)
(* blocked windows, date and duration, every time find_available_slots     *)
(* returns makes _check_conflict and _check_preference_block return the    *)
(* empty list.                                                             *)
C35_SolverAgreesWithChecks ==
    op = "find_available_slots" =>
        \A s \in Returned :
            /\ _check_conflict(events, s.date, s.time, s.duration) = <<>>
            /\ _check_preference_block(blocked_slots, s.date, s.time,
                                       s.duration, today) = <<>>


(* the slot with its whole duration lies inside the free interval *)
InsideInterval(s, iv) ==
    /\ iv.date = s.date
    /\ time_to_slot(iv.start) <= s.slot
    /\ s.slot + duration_to_slots(s.duration) <= time_to_slot(iv.end)

AllInside(S, free) ==
    \A s \in S : \E i \in 1..Len(free) : InsideInterval(s, free[i])

ReturnedOn(R, date) == {s \in R : s.date = date}

(* what find_free_slots returns for the date with its default min_duration *)
FreeOn(date, sysnow) ==
    find_free_slots(events, blocked_slots, date, 30, today, sysnow)

SlotsInsideFree(R) ==
    \A date \in {s.date : s \in R} :
        \A sysnow \in {today - 1, today, today + 1} :
            AllInside(ReturnedOn(R, date), FreeOn(date, sysnow))

(* C36: the two solver queries agree: every slot find_available_slots      *)
(* returns lies, with its whole duration, inside a single interval that    *)
(* find_free_slots returns for the same events, blocked windows and date   *)
(* with the default min_duration, whatever the host's local date is.       *)
C36_SlotInsideFreeInterval ==
    op = "find_available_slots" =>
        SlotsInsideFree(Returned)

(* a returned slot on a date with an event and two free intervals *)
C36_Witness ==
    /\ op = "find_available_slots"
    /\ \E s \in Returned :
         /\ \E k \in 1..Len(events) : events[k].date = s.date
         /\ Len(FreeOn(s.date, today)) >= 2
         /\ InsideInterval(s, FreeOn(s.date, today)[2])


(* the create, update and delete calls among the Event Store calls *)
MutationCalls(calls) ==
    Len(SelectSeq(calls, LAMBDA c :
            c \in {"create_event", "update_event", "delete_event"}))

(* the mutation calls the handler had made before the step *)
CallsBefore == IF inputs' # inputs THEN 0 ELSE MutationCalls(store_calls)

(* C37: in single-command mode no Event Store mutation happens without a   *)
(* user action that selects it: a step makes a create, update or delete    *)
(* call only on an accepted confirmation, an override choice or a manually *)
(* entered time, and the event created is the one confirmed or entered; a  *)
(* declined or cancelled prompt makes no call and changes no event; one    *)
(* handle_schedule invocation makes at most one create call.               *)
C37_MutationNeedsUserAction ==
    [][op = "dispatch" =>
         /\ MutationCalls(store_calls') > CallsBefore =>
               /\ answer' \in {"accepted", "override", "manual", "anyway"}
               /\ MutationCalls(store_calls') = CallsBefore + 1
         /\ events' # events => MutationCalls(store_calls') > CallsBefore
         /\ answer' \in {"declined", "cancel"} =>
               /\ MutationCalls(store_calls') = CallsBefore
               /\ events' = events /\ created' = <<>> /\ deleted' = <<>>
         /\ (created' # <<>> /\ pc = "suggest") =>
               IF answer' = "accepted"
                 THEN /\ created'[1].date = all_slots[slot_idx + 1].date
                      /\ created'[1].time = all_slots[slot_idx + 1].time
                 ELSE created'[1].time = check_args'.time
         /\ (created' # <<>> /\ pc = "idle") =>
               created'[1].time = handler'.cmd.time
         /\ handler'.name = "handle_schedule" =>
               /\ MutationCalls(store_calls') <= 1
               /\ Len(created') <= 1
               /\ MutationCalls(store_calls') = 1 => pc' = "idle"]_vars

(* handle_schedule asked the solver, the user accepted a suggested slot    *)
(* and the one event was created                                           *)
C37_Witness ==
    /\ op = "dispatch"
    /\ handler.name = "handle_schedule"
    /\ answer = "accepted"
    /\ created # <<>>
    /\ all_slots = <<>>
    /\ solutions # <<>>
    /\ MutationCalls(store_calls) = 1


(* C38: when the execution of a chain starts, the SCHEDULE commands whose   *)
(* times a pre-solve pass assigned (in any pass, and that the user has not *)
(* edited since) are pairwise non-overlapping on every date.               *)
C38_AutoTimesDisjoint ==
    op = "execute" =>
        \A i \in auto, j \in auto :
            (i # j /\ cmds[i + 1].dates = cmds[j + 1].dates)
                => ~SlotOverlap(cmds[i + 1], cmds[j + 1])


(* C39: when the request carries no date, every slot find_available_slots  *)
(* returns has a date on or after today, and every event of the date of a  *)
(* returned slot is accounted for as busy: the slot overlaps none of them. *)
C39_NoDateFromToday ==
    (op = "find_available_slots" /\ request.date = NoDate) =>
        \A s \in Returned :
            /\ s.date >= today
            /\ _check_conflict(events, s.date, s.time, s.duration) = <<>>

====
